---- MODULE Spec2Model ----
(***************************************************************************)
(* AdvancedAudioEngine of obsidian-global-music-player                     *)
(* (src/music-block-processor.ts, lines 524-1071) as a state machine.      *)
(*                                                                         *)
(* Scheduling is the JavaScript event loop: one thread, run to completion. *)
(* An async method runs synchronously up to its first await.  An await on  *)
(* a promise that is already settled queues the continuation as a          *)
(* microtask (variable mq, FIFO); microtasks run before any timer, media   *)
(* event or promise of the platform is served.  An await on platform work  *)
(* (vault.readBinary, audio.play(), a fade's setInterval) suspends until   *)
(* the platform serves it; the continuation then runs in the same step,    *)
(* because the microtask queue is empty when the platform is served.       *)
(*                                                                         *)
(* Volumes are integers in thousandths (0.7 is 700), times of a fade are   *)
(* milliseconds, positions of a media element are seconds.                 *)
(***************************************************************************)
EXTENDS Integers, Sequences, FiniteSets, TLC

\* ------------------------------------------------------------------ bounds
MaxCalls == 2
\* the MusicRule objects created and the saveData calls in flight, at most
MaxObjects == 3
MaxSaving == 2
\* the setTimeout calls of the debounce, at most
MaxTimers == 3
Duration == 1
MaxOvershoot == 16
LongDuration == 25

\* ------------------------------------------------------- program constants
DefaultVolume == 700
TickMs == 16

NULL == 0
\* playback rates in thousandths: the interval of lines 580 and 1064, and the
\* rate of a new media element
RateMin == 250
RateMax == 4000
DefaultRate == 1000
\* An optional numeric field of a track that is not given (undefined).
Undefined == -1
\* the delay of the debounce (main.ts 371), in ms
DebounceMs == 300

VARIABLES
  audio,                \* the media elements and AudioInstance objects created so far
  bgmInstance,          \* the background slot: an index of audio, or NULL
  sfxInstances,         \* Map<string, AudioInstance>: key -> index of audio
  globalVolume,
  isPlayingBGM,
  audioManagerLock,
  timers,               \* the setInterval timers created by fadeIn / fadeOut
  calls,                \* the invocations of the async methods, in call order
  mq,                   \* the microtask queue: calls whose await is already settled
  now,                  \* Date.now()
  invoked,              \* how many times a public method was invoked (bounds the model)
  plugin,               \* GlobalMusicPlayer: its settings and its rule engine
  resolution            \* a call of resolveAudioPath taken by itself: arguments and result

vars == <<audio, bgmInstance, sfxInstances, globalVolume, isPlayingBGM,
          audioManagerLock, timers, calls, mq, now, invoked, plugin, resolution>>

\* the engine's part of the state
engineVars == <<audio, bgmInstance, sfxInstances, globalVolume, isPlayingBGM,
                audioManagerLock, timers, calls, mq, now, invoked>>

\* --------------------------------------------------------------- descriptors
\* AudioTrack.  A numeric field that is absent is 0: the code reads every one of
\* them through a truthiness test (track.fadeIn && ..., track.startTime && ...),
\* which cannot tell 0 from undefined.  volume and loopStart are Undefined when
\* the descriptor has none, and loop is read by identity (!== false).
Track(path, volume, fadeIn, loop, startTime, endTime, loopStart, apply) ==
  [path |-> path, volume |-> volume, fadeIn |-> fadeIn, loop |-> loop,
   startTime |-> startTime, endTime |-> endTime, loopStart |-> loopStart,
   applyRangeToLoop |-> apply, playbackRate |-> 0]

\* The descriptor with playbackRate: rate
Rated(track, rate) == [track EXCEPT !.playbackRate = rate]

RemotePath == "https://x/a.mp3"
LocalPath == "music/a.mp3"
NotAString == "<number>"
\* A remote resource that is LongDuration seconds long; every other one is
\* Duration seconds long.
LongPath == "https://x/long.mp3"

BGMTracks ==
  { Rated(Track(RemotePath, 0, 0, "undefined", 0, 0, 0, FALSE), 2000),
    Track(LocalPath, 500, 32, "undefined", 1, 0, 0, FALSE),
    Rated(Track(RemotePath, 1500, 0, "false", 0, 0, 0, FALSE), 5000),
    Track(NotAString, 0, 0, "undefined", 0, 0, 0, FALSE) }

SFXTracks ==
  { Track(RemotePath, Undefined, 0, "undefined", 0, 0, 0, FALSE),
    Track(RemotePath, 300, 32, "undefined", 0, 0, 0, FALSE) }

FadeOutTimes == {0, 32}
SetVolumes == {300, 1500}
SetTimes == {-1, 30}
SetRates == {100, 2000, 5000}
TickDeltas == {TickMs}

\* ------------------------------------------------------------------ helpers
Min(a, b) == IF a < b THEN a ELSE b
Max(a, b) == IF a > b THEN a ELSE b

\* pendingBGMOperation is declared null and assigned nowhere in the class.
pendingBGMOperation == NULL

\* path.startsWith('http://') || 'https://' || 'data:'; a path that is not a
\* string has no startsWith and the call throws a TypeError.
IsString(path) == path # NotAString
IsRemote(path) == path \in {RemotePath, LongPath}
\* app.vault.getAbstractFileByPath(path) instanceof TFile
VaultFiles == {LocalPath}

\* HTMLMediaElement.volume: the setter throws IndexSizeError outside [0, 1].
VolumeOk(v) == v >= 0 /\ v <= 1000

InFlight(c) == calls[c].pc # "done"
InFlightCalls == {c \in 1..Len(calls) : InFlight(c)}

\* The intervals that run are a map from their id; the id of the interval a
\* call starts is the index of that call (a call starts at most one).
\* clearInterval(id): the interval is gone; an id that is undefined or already
\* cleared does nothing.
clearInterval(TM, id) == [k \in DOMAIN TM \ {id} |-> TM[k]]
setInterval(TM, id, tm) == [k \in DOMAIN TM \cup {id} |-> IF k = id THEN tm ELSE TM[k]]
NoTimers == [k \in {} |-> NULL]

\* ---------------------------------------------------------------- stopAudio
\* lines 796-814: clearInterval(instance.fadeInterval) (the field keeps its
\* value), the two range handlers removed, pause(), currentTime = 0.
stopAudioTimers(TM, A, i) ==
  IF A[i].fadeInterval # 0 THEN clearInterval(TM, A[i].fadeInterval) ELSE TM

\* A stopAudio that would leave the two range handlers attached.
stopAudioKeepHandlers(A, i) ==
  [A EXCEPT ![i].media = "paused", ![i].pos = 0]

stopAudioMedia(A, i) ==
  [A EXCEPT ![i].handlers = FALSE, ![i].media = "paused", ![i].pos = 0]

\* ------------------------------------------- checkAndCleanupDuplicateAudio
\* lines 1019-1039: every element of document.querySelectorAll('audio') that is
\* neither the slot's nor a tracked effect's and is not paused is paused and
\* rewound.  The engine makes its elements with `new Audio(url)` and never
\* inserts one into the document (inDocument is FALSE in NewBGM and NewSFX),
\* so the query reaches none of them; the elements of other code are no state
\* of the engine.
checkAndCleanupDuplicateAudio(A) ==
  [i \in 1..Len(A) |->
     IF /\ A[i].inDocument
        /\ i # bgmInstance /\ i \notin {sfxInstances[k] : k \in DOMAIN sfxInstances}
        /\ A[i].media \notin {"paused", "failed"}
     THEN [A[i] EXCEPT !.media = "paused", !.pos = 0]
     ELSE A[i]]

\* ------------------------------------------------------------- forceStopBGM
\* lines 673-695, the body runs synchronously inside playBGM's first segment.
\* A force-stop that would stop every instance, the effects included.
forceStopEvery(A, slot) ==
  [i \in 1..Len(A) |->
     [A[i] EXCEPT !.media = "paused", !.pos = 0, !.handlers = FALSE]]

\* A force-stop that would pause the slot's instance without rewinding it.
forceStopNoRewind(A, slot) ==
  IF slot # NULL THEN [A EXCEPT ![slot].media = "paused", ![slot].handlers = FALSE]
  ELSE A

forceStopMedia(A, slot) ==
  IF slot # NULL
  THEN [A EXCEPT ![slot].media = "paused", ![slot].pos = 0, ![slot].handlers = FALSE]
  ELSE A

forceStopTimers(TM, A, slot) ==
  IF slot # NULL /\ A[slot].fadeInterval # 0
  THEN clearInterval(TM, A[slot].fadeInterval)
  ELSE TM

\* ------------------------------------------------------------ new instances
\* track.volume || this.globalVolume
targetVolumeOf(track, g) ==
  IF track.volume \notin {Undefined, 0} THEN track.volume ELSE g

\* rate >= 0.25 && rate <= 4.0
RateOk(rate) == rate >= RateMin /\ rate <= RateMax

\* lines 579-583: the descriptor's rate if it has one within the interval,
\* else the rate of a new element
rateOf(track) ==
  IF track.playbackRate # 0 /\ RateOk(track.playbackRate)
  THEN track.playbackRate
  ELSE DefaultRate

\* The events the platform has queued at a media element for the end of its
\* resource and not dispatched yet.  seeks and handled are kept for stating
\* the claims and read by no action: how many of the events of this end were
\* given to a handler of the engine, and how many of those handlers seeked.
NoBoundary == [queued |-> <<>>, seeks |-> 0, handled |-> 0]

\* playBGM lines 564-596: new Audio, the instance, loop = false, volume = 0,
\* the rate, the range handlers, currentTime = startTime, play() called (not
\* settled).
NewBGM(track, g) ==
  [type |-> "bgm", track |-> track, media |-> "loading",
   pos |-> IF track.startTime > 0 THEN track.startTime ELSE 0,
   volume |-> 0, currentVolume |-> 0, targetVolume |-> targetVolumeOf(track, g),
   fadeInterval |-> 0, handlers |-> TRUE, isLooping |-> FALSE,
   loopAttr |-> FALSE, sfxId |-> <<>>, inDocument |-> FALSE,
   playbackRate |-> rateOf(track), boundary |-> NoBoundary]

\* playSFX lines 621-645: the key is `${track.path}_${Date.now()}`.
NewSFX(track, g, t) ==
  [type |-> "sfx", track |-> track, media |-> "loading", pos |-> 0,
   volume |-> 0, currentVolume |-> 0, targetVolume |-> targetVolumeOf(track, g),
   fadeInterval |-> 0, handlers |-> FALSE, isLooping |-> FALSE,
   loopAttr |-> (track.loop = "true"), sfxId |-> <<track.path, t>>,
   inDocument |-> FALSE, playbackRate |-> DefaultRate, boundary |-> NoBoundary]

\* Map.set(key, i)
MapSet(M, key, i) == [k \in DOMAIN M \cup {key} |-> IF k = key THEN i ELSE M[k]]
\* Map.delete(key)
MapDelete(M, key) == [k \in DOMAIN M \ {key} |-> M[k]]
EmptyMap == [k \in {} |-> NULL]

\* ---------------------------------------------------------------- the calls
\* Two fields are kept for stating the claims and are read by no action:
\* prev, the instance the slot held when the method was invoked, and ops, what
\* else ran while the call was in flight ("none", "play": only other playBGM
\* calls, "other").
NewCall(op, pc, track, fo, prev) ==
  [op |-> op, pc |-> pc, track |-> track, inst |-> NULL, fadeOut |-> fo,
   result |-> "pending", failed |-> "none", prev |-> prev,
   ops |-> IF InFlightCalls = {} THEN "none"
           ELSE IF op = "playBGM" /\ \A c \in InFlightCalls : calls[c].op = "playBGM"
                THEN "play" ELSE "other"]

Lub(a, b) == IF a = "other" \/ b = "other" THEN "other"
             ELSE IF a = "play" \/ b = "play" THEN "play" ELSE "none"

\* The calls in flight see an operation of kind k ("play" or "other").
Seen(C, k) == [c \in 1..Len(C) |->
                 IF C[c].pc # "done" THEN [C[c] EXCEPT !.ops = Lub(@, k)] ELSE C[c]]

NoTrack == Track(NotAString, 0, 0, "undefined", 0, 0, 0, FALSE)

\* ------------------------------------------------------- the plugin's state
\* MusicRule (main.ts 20-28), without its id and its name, which are only
\* displayed.
Rule(trigger, pattern, musicPath, priority, enabled) ==
  [trigger |-> trigger, pattern |-> pattern, musicPath |-> musicPath,
   priority |-> priority, enabled |-> enabled]

\* DEFAULT_SETTINGS.musicRules[0] (main.ts 56-64); the rule of the "Add new
\* rule" button (main.ts 682-690) has the same fields.
NewRule == Rule("file-extension", "md", "", 1, TRUE)

\* An updateRules that would keep the order of the settings.
keepOrder(O, q) == q

\* Array.prototype.sort with (a, b) => b.priority - a.priority on the array q
\* of references into the objects O: stable, highest priority first.
RECURSIVE sortByPriority(_, _)
sortByPriority(O, q) ==
  IF q = <<>> THEN <<>>
  ELSE LET top == CHOOSE i \in 1..Len(q) :
                    /\ \A j \in 1..Len(q) : O[q[j]].priority <= O[q[i]].priority
                    /\ \A j \in 1..(i - 1) : O[q[j]].priority < O[q[i]].priority
           rest == [k \in 1..(Len(q) - 1) |-> IF k < top THEN q[k] ELSE q[k + 1]]
       IN <<q[top]>> \o sortByPriority(O, rest)

\* The plugin after onload (main.ts 135-140) with the settings it loaded:
\* objects are the MusicRule objects created so far, musicRules is
\* settings.musicRules and rules is ruleEngine.rules, both arrays of
\* references to them.  The constructor of MusicRuleEngine (main.ts 75-77)
\* sorts the array it is given in place and keeps that very array: shared
\* says that ruleEngine.rules still is settings.musicRules.  saving counts
\* the saveData calls in flight.  stale is kept for stating the claims and
\* read by no action: the rules of the settings were changed after the last
\* updateRules.
\* autoplay is settings.autoplay; loaded says that onunload has not run;
\* debounceTimer is the field of main.ts 129, timeouts are the timers of
\* window.setTimeout that are pending (id -> the file of the callback and the
\* ms gone since it was set) and timeoutIds is the id given last.
\* sinceEvent, sinceDebounced and lastEvent are kept for stating the claims
\* and read by no action: the ms gone since the last workspace event, since
\* the last call of debouncedHandleFileChange (both at most DebounceMs), and
\* the file of that call.
Loaded(rules, frontmatterEnabled, frontmatterPriority) ==
  [frontmatterEnabled |-> frontmatterEnabled,
   frontmatterPriority |-> frontmatterPriority,
   objects |-> rules,
   musicRules |-> sortByPriority(rules, [i \in 1..Len(rules) |-> i]),
   rules |-> <<>>,
   shared |-> TRUE,
   saving |-> 0,
   stale |-> FALSE,
   autoplay |-> TRUE,
   loaded |-> TRUE,
   debounceTimer |-> NULL,
   timeouts |-> [k \in {} |-> NULL],
   timeoutIds |-> 0,
   sinceEvent |-> DebounceMs,
   sinceDebounced |-> DebounceMs,
   lastEvent |-> [path |-> "<null>", extension |-> "", music |-> ""]]

\* DEFAULT_SETTINGS, main.ts 45-66
DefaultPlugin == Loaded(<<NewRule>>, TRUE, TRUE)

\* No call of resolveAudioPath is under study.
Idle == [pc |-> "idle", path |-> <<>>, file |-> "none", base |-> <<>>, url |-> <<>>]

Init ==
  /\ plugin = DefaultPlugin
  /\ resolution = Idle
  /\ audio = <<>>
  /\ bgmInstance = NULL
  /\ sfxInstances = EmptyMap
  /\ globalVolume = DefaultVolume
  /\ isPlayingBGM = FALSE
  /\ audioManagerLock = FALSE
  /\ timers = NoTimers
  /\ calls = <<>>
  /\ mq = <<>>
  /\ now = 0
  /\ invoked = 0

\* --------------------------------------------------------- resolveAudioPath
\* lines 879-914, up to its first suspension: a remote path, a path with no
\* file in the vault and a path that is no string all settle the returned
\* promise at once; a vault file waits for readBinary.
ResolvePc(path) ==
  IF IsString(path) /\ ~IsRemote(path) /\ path \in VaultFiles
  THEN "reading" ELSE "resolved"

\* A public method of the engine is invoked.
Invoke == invoked < MaxCalls /\ invoked' = invoked + 1

\* ------------------------------------------------------------------ playBGM
\* lines 543-560: the lock test (the await of pendingBGMOperation is dead,
\* see above), the lock taken, the duplicate cleanup, forceStopBGM's body,
\* then `await this.forceStopBGM()` on a settled promise.
playBGM(track) ==
  /\ Invoke
  /\ ~(audioManagerLock /\ pendingBGMOperation # NULL)
  /\ audioManagerLock' = TRUE
  /\ audio' = forceStopMedia(checkAndCleanupDuplicateAudio(audio), bgmInstance)
  /\ timers' = forceStopTimers(timers, audio, bgmInstance)
  /\ bgmInstance' = NULL
  /\ isPlayingBGM' = IF bgmInstance # NULL THEN FALSE ELSE isPlayingBGM
  /\ calls' = Append(Seen(calls, "play"),
                     NewCall("playBGM", "forceStopped", track, 0, bgmInstance))
  /\ mq' = Append(mq, Len(calls) + 1)
  /\ UNCHANGED <<sfxInstances, globalVolume, now>>

\* playBGM invoked by itself: nothing of the plugin changes with it.
PlayBGM(track) == playBGM(track) /\ UNCHANGED <<plugin, resolution>>

\* line 563: resolveAudioPath(track.path) is called and awaited.
BGMResolve(c) ==
  /\ mq # <<>> /\ Head(mq) = c
  /\ calls[c].op = "playBGM" /\ calls[c].pc = "forceStopped"
  /\ LET pc == ResolvePc(calls[c].track.path) IN
       /\ calls' = [calls EXCEPT ![c].pc = pc]
       /\ mq' = IF pc = "resolved" THEN Append(Tail(mq), c) ELSE Tail(mq)
  /\ UNCHANGED <<audio, bgmInstance, sfxInstances, globalVolume, isPlayingBGM,
                 audioManagerLock, timers, now, invoked>>
  /\ UNCHANGED <<plugin, resolution>>

\* The finally of playBGM (line 612) and the promise the method returns: the
\* catch at 608 swallows every error, so playBGM always fulfils.
Finish(C, c, result, failed) ==
  [C EXCEPT ![c].pc = "done", ![c].result = result, ![c].failed = failed,
            ![c].track = NoTrack, ![c].prev = NULL, ![c].fadeOut = 0]

\* What the catch block of playBGM would give if it rethrew the error.
FailureRethrown(op) == "rejected"

\* What the promise of a play call that failed settles to: playBGM catches
\* (lines 608-611) and returns normally, playSFX has no try and rejects.
FailureResult(op) == IF op = "playBGM" THEN "fulfilled" ELSE "rejected"

\* The resolved path has arrived (or resolveAudioPath threw): lines 563-596 of
\* playBGM, lines 620-645 of playSFX, up to `await audio.play()`.
CreateAndPlay(c) ==
  LET call == calls[c]
      isBGM == call.op = "playBGM"
  IN IF ~IsString(call.track.path)
     THEN /\ calls' = Finish(calls, c, FailureResult(call.op), "resolve")
          /\ isPlayingBGM' = IF isBGM THEN FALSE ELSE isPlayingBGM
          /\ audioManagerLock' = IF isBGM THEN FALSE ELSE audioManagerLock
          /\ UNCHANGED audio
     ELSE /\ audio' = Append(audio, IF isBGM THEN NewBGM(call.track, globalVolume)
                                    ELSE NewSFX(call.track, globalVolume, now))
          /\ calls' = [calls EXCEPT ![c].pc = "starting", ![c].inst = Len(audio) + 1]
          /\ UNCHANGED <<isPlayingBGM, audioManagerLock>>

\* The continuation of `await this.resolveAudioPath(...)` for a path that
\* needed no file read.
Resolved(c) ==
  /\ mq # <<>> /\ Head(mq) = c
  /\ calls[c].pc = "resolved"
  /\ mq' = Tail(mq)
  /\ CreateAndPlay(c)
  /\ UNCHANGED <<bgmInstance, sfxInstances, globalVolume, timers, now, invoked>>
  /\ UNCHANGED <<plugin, resolution>>

\* vault.readBinary settles (lines 890-898): a blob URL on success, the
\* fallback URL on failure; either way resolveAudioPath returns a string and
\* the caller goes on.
ReadSettle(c) ==
  /\ mq = <<>>
  /\ calls[c].pc = "reading"
  /\ CreateAndPlay(c)
  /\ UNCHANGED <<bgmInstance, sfxInstances, globalVolume, timers, mq, now, invoked>>
  /\ UNCHANGED <<plugin, resolution>>

\* ------------------------------------------------------------------ playSFX
\* lines 617-620: resolveAudioPath is called at once.
PlaySFX(track) ==
  /\ Invoke
  /\ LET pc == ResolvePc(track.path) IN
       /\ calls' = Append(Seen(calls, "other"), NewCall("playSFX", pc, track, 0, bgmInstance))
       /\ mq' = IF pc = "resolved" THEN Append(mq, Len(calls) + 1) ELSE mq
  /\ UNCHANGED <<audio, bgmInstance, sfxInstances, globalVolume, isPlayingBGM,
                 audioManagerLock, timers, now>>
  /\ UNCHANGED <<plugin, resolution>>

\* ------------------------------------------------------------ fadeIn / fadeOut
\* new Promise(...) of fadeIn (718-752) and fadeOut (755-788): the start and
\* target volumes are captured, setInterval is started, its id is stored in
\* instance.fadeInterval.  assigned is the volume the timer assigned last.
NewTimer(kind, i, from, to, duration, waiter) ==
  [kind |-> kind, inst |-> i, startVolume |-> from, targetVolume |-> to,
   duration |-> duration, elapsed |-> 0, resolved |-> FALSE,
   waiter |-> waiter, assigned |-> from, ticks |-> 0]

\* audio.play() settles (line 596 / 645) and the method runs on to its next
\* await or to its end.
PlaySettle(c, ok) ==
  /\ mq = <<>>
  /\ calls[c].pc = "starting"
  /\ LET call == calls[c]
         i == call.inst
         isBGM == call.op = "playBGM"
         fade == call.track.fadeIn > 0
         tv == audio[i].targetVolume
     IN IF ~ok
        THEN /\ audio' = [audio EXCEPT ![i].media = "failed"]
             /\ calls' = Finish(calls, c, FailureResult(call.op), "start")
             /\ isPlayingBGM' = IF isBGM THEN FALSE ELSE isPlayingBGM
             /\ audioManagerLock' = IF isBGM THEN FALSE ELSE audioManagerLock
             /\ UNCHANGED <<bgmInstance, sfxInstances, timers>>
        ELSE /\ bgmInstance' = IF isBGM THEN i ELSE bgmInstance
             /\ sfxInstances' = IF isBGM THEN sfxInstances
                                ELSE MapSet(sfxInstances, audio[i].sfxId, i)
             /\ IF fade
                THEN /\ timers' = setInterval(timers, c,
                                               NewTimer("in", i, audio[i].currentVolume,
                                                        tv, call.track.fadeIn, c))
                     /\ audio' = [audio EXCEPT ![i].media = "playing",
                                               ![i].fadeInterval = c]
                     /\ calls' = [calls EXCEPT ![c].pc = "fading"]
                     /\ isPlayingBGM' = IF isBGM THEN TRUE ELSE isPlayingBGM
                     /\ UNCHANGED audioManagerLock
                ELSE IF VolumeOk(tv)
                THEN /\ audio' = [audio EXCEPT ![i].media = "playing", ![i].volume = tv,
                                               ![i].currentVolume = tv]
                     /\ calls' = Finish(calls, c, "fulfilled", "none")
                     /\ isPlayingBGM' = IF isBGM THEN TRUE ELSE isPlayingBGM
                     /\ audioManagerLock' = IF isBGM THEN FALSE ELSE audioManagerLock
                     /\ UNCHANGED timers
                ELSE /\ audio' = [audio EXCEPT ![i].media = "playing"]
                     /\ calls' = Finish(calls, c, FailureResult(call.op), "volume")
                     /\ isPlayingBGM' = IF isBGM THEN FALSE ELSE isPlayingBGM
                     /\ audioManagerLock' = IF isBGM THEN FALSE ELSE audioManagerLock
                     /\ UNCHANGED timers
  /\ UNCHANGED <<globalVolume, mq, now, invoked>>
  /\ UNCHANGED <<plugin, resolution>>

\* ---------------------------------------------------------------- the ramp
\* An easing that would keep the first branch, 2*t*t, for every t.
easeInQuad(e, D) == LET p == Min(e, D) IN 2 * p * p

\* progress = Math.min(elapsed / duration, 1) is the fraction Min(e, D) / D.
\* easeInOutQuad(t) = t < 0.5 ? 2*t*t : -1 + (4 - 2*t)*t  (lines 791-793),
\* as a numerator over D*D.
easeInOutQuad(e, D) ==
  LET p == Min(e, D)
  IN IF 2 * p < D THEN 2 * p * p ELSE (4 * D - 2 * p) * p - D * D

\* Math.round(n / d) for d > 0: the nearest integer, halves rounded up.
MathRound(n, d) == (2 * n + d) \div (2 * d)

\* lines 730-733: Math.round((start + (target - start) * eased) * 1000) / 1000
fadeInVolume(from, to, e, D) ==
  MathRound(from * D * D + (to - from) * easeInOutQuad(e, D), D * D)

\* A fade-out that would follow the eased progress instead of its complement.
fadeOutRising(from, e, D) ==
  Max(MathRound(from * easeInOutQuad(e, D), D * D), 0)

\* lines 766-769: Math.max(Math.round(start * (1 - eased) * 1000) / 1000, 0)
fadeOutVolume(from, e, D) ==
  Max(MathRound(from * (D * D - easeInOutQuad(e, D)), D * D), 0)

\* progress >= 1 (line 737); fadeOut also ends on a rounded volume <= 0 (773).
RampDone(tm, e, v) ==
  \/ e >= tm.duration
  \/ tm.kind = "out" /\ v <= 0

\* The volume a tick at elapsed time e computes, and the volume it leaves
\* when it is the last tick.
TickVolume(tm, e) ==
  IF tm.kind = "in" THEN fadeInVolume(tm.startVolume, tm.targetVolume, e, tm.duration)
  ELSE fadeOutVolume(tm.startVolume, e, tm.duration)

FinalVolume(tm) == IF tm.kind = "in" THEN tm.targetVolume ELSE 0

\* One run of updateVolume (724-746 / 760-782) of timer t, at elapsed time e.
\* A volume the media element refuses makes the callback throw at its first
\* assignment: nothing is assigned and the interval keeps running.
\* Returns the audio and timers after the callback and whether it resolved
\* the promise in this run.
UpdateVolume(t, e) ==
  LET tm == timers[t]
      i == tm.inst
      v == TickVolume(tm, e)
      done == RampDone(tm, e, v)
      last == IF done THEN FinalVolume(tm) ELSE v
      fi == audio[i].fadeInterval
      TM0 == [timers EXCEPT ![t].elapsed = e]
  IN IF ~VolumeOk(v)
     THEN [audio |-> audio, timers |-> TM0, resolves |-> FALSE]
     ELSE [audio |-> [audio EXCEPT ![i].volume = last, ![i].currentVolume = last,
                                   ![i].fadeInterval = IF done THEN 0 ELSE @],
           timers |-> LET TM1 == [TM0 EXCEPT ![t].assigned = last,
                                             ![t].ticks = Min(@ + 1, 2),
                                             ![t].resolved = @ \/ done]
                      IN IF done /\ fi # 0 THEN clearInterval(TM1, fi) ELSE TM1,
           resolves |-> done /\ ~tm.resolved]

\* A tick of a running interval.  When it resolves the fade's promise, the
\* method awaiting it goes on: playBGM to its finally, playSFX to its end,
\* stopBGM to lines 705-706 (stopAudio(this.bgmInstance) on whatever the slot
\* holds now; on an empty slot the property read throws and stopBGM rejects).
FadeTick(t, d) ==
  /\ mq = <<>>
  /\ t \in DOMAIN timers
  /\ LET e == Min(timers[t].elapsed + d, timers[t].duration + MaxOvershoot)
         u == UpdateVolume(t, e)
         c == timers[t].waiter
         op == calls[c].op
     IN IF ~u.resolves
        THEN /\ audio' = u.audio
             /\ timers' = u.timers
             /\ UNCHANGED <<calls, bgmInstance, audioManagerLock>>
        ELSE IF op = "stopBGM"
        THEN IF bgmInstance = NULL
             THEN /\ audio' = u.audio
                  /\ timers' = u.timers
                  /\ calls' = Finish(calls, c, "rejected", "null")
                  /\ UNCHANGED <<bgmInstance, audioManagerLock>>
             ELSE /\ audio' = stopAudioMedia(u.audio, bgmInstance)
                  /\ timers' = stopAudioTimers(u.timers, u.audio, bgmInstance)
                  /\ bgmInstance' = NULL
                  /\ calls' = Finish(calls, c, "fulfilled", "none")
                  /\ UNCHANGED audioManagerLock
        ELSE /\ audio' = u.audio
             /\ timers' = u.timers
             /\ calls' = Finish(calls, c, "fulfilled", "none")
             /\ audioManagerLock' = IF op = "playBGM" THEN FALSE ELSE audioManagerLock
             /\ UNCHANGED bgmInstance
  /\ UNCHANGED <<sfxInstances, globalVolume, isPlayingBGM, mq, now, invoked>>
  /\ UNCHANGED <<plugin, resolution>>

\* ------------------------------------------------------------------ stopBGM
\* lines 698-707.  Without a fade the whole method runs in the caller's step.
StopBGMNow ==
  /\ Invoke
  /\ bgmInstance # NULL
  /\ audio' = stopAudioMedia(audio, bgmInstance)
  /\ timers' = stopAudioTimers(timers, audio, bgmInstance)
  /\ bgmInstance' = NULL
  /\ calls' = Seen(calls, "other")
  /\ UNCHANGED <<sfxInstances, globalVolume, isPlayingBGM, audioManagerLock, mq, now>>
  /\ UNCHANGED <<plugin, resolution>>

\* A stopBGM that would pause and rewind the media before its fade-out.
StopBGMFadeEager(fo) ==
  /\ Invoke
  /\ bgmInstance # NULL
  /\ fo > 0
  /\ timers' = setInterval(timers, Len(calls) + 1,
                            NewTimer("out", bgmInstance,
                                     audio[bgmInstance].currentVolume, 0, fo,
                                     Len(calls) + 1))
  /\ audio' = stopAudioMedia([audio EXCEPT ![bgmInstance].fadeInterval = Len(calls) + 1],
                             bgmInstance)
  /\ calls' = Append(Seen(calls, "other"),
                     [NewCall("stopBGM", "fadingOut", NoTrack, fo, bgmInstance)
                        EXCEPT !.inst = bgmInstance])
  /\ UNCHANGED <<bgmInstance, sfxInstances, globalVolume, isPlayingBGM,
                 audioManagerLock, mq, now>>
  /\ UNCHANGED <<plugin, resolution>>

\* With a fade: fadeOut(this.bgmInstance, fadeOutTime) starts the interval and
\* the method awaits its promise.
StopBGMFade(fo) ==
  /\ Invoke
  /\ bgmInstance # NULL
  /\ fo > 0
  /\ timers' = setInterval(timers, Len(calls) + 1,
                            NewTimer("out", bgmInstance,
                                     audio[bgmInstance].currentVolume, 0, fo,
                                     Len(calls) + 1))
  /\ audio' = [audio EXCEPT ![bgmInstance].fadeInterval = Len(calls) + 1]
  /\ calls' = Append(Seen(calls, "other"),
                     [NewCall("stopBGM", "fadingOut", NoTrack, fo, bgmInstance)
                        EXCEPT !.inst = bgmInstance])
  /\ UNCHANGED <<bgmInstance, sfxInstances, globalVolume, isPlayingBGM,
                 audioManagerLock, mq, now>>
  /\ UNCHANGED <<plugin, resolution>>

\* ------------------------------------------------------ stopAll, stopAllSFX
Tracked == {sfxInstances[k] : k \in DOMAIN sfxInstances}

\* stopAudio applied to every instance of the set S
RECURSIVE StopEach(_, _)
StopEach(A, S) ==
  IF S = {} THEN A
  ELSE LET i == CHOOSE x \in S : TRUE IN StopEach(stopAudioMedia(A, i), S \ {i})

RECURSIVE ClearEach(_, _, _)
ClearEach(TM, A, S) ==
  IF S = {} THEN TM
  ELSE LET i == CHOOSE x \in S : TRUE
       IN ClearEach(stopAudioTimers(TM, A, i), A, S \ {i})

\* lines 656-670
stopAll ==
  LET S == Tracked \cup (IF bgmInstance # NULL THEN {bgmInstance} ELSE {})
  IN /\ Invoke
     /\ audio' = StopEach(audio, S)
     /\ timers' = ClearEach(timers, audio, S)
     /\ bgmInstance' = NULL
     /\ sfxInstances' = EmptyMap
     /\ isPlayingBGM' = FALSE
     /\ calls' = Seen(calls, "other")
     /\ UNCHANGED <<globalVolume, audioManagerLock, mq, now>>

\* stopAll invoked by itself: nothing of the plugin changes with it.
StopAll == stopAll /\ UNCHANGED <<plugin, resolution>>

\* A stopAllSFX that would clear the map and pause the effects where they
\* are, without rewinding them.
StopAllSFXNoRewind ==
  /\ Invoke
  /\ sfxInstances # EmptyMap
  /\ audio' = [i \in 1..Len(audio) |->
                 IF i \in Tracked THEN [audio[i] EXCEPT !.media = "paused"]
                 ELSE audio[i]]
  /\ timers' = ClearEach(timers, audio, Tracked)
  /\ sfxInstances' = EmptyMap
  /\ calls' = Seen(calls, "other")
  /\ UNCHANGED <<bgmInstance, globalVolume, isPlayingBGM, audioManagerLock, mq, now>>
  /\ UNCHANGED <<plugin, resolution>>

\* lines 709-715
StopAllSFX ==
  /\ Invoke
  /\ sfxInstances # EmptyMap
  /\ audio' = StopEach(audio, Tracked)
  /\ timers' = ClearEach(timers, audio, Tracked)
  /\ sfxInstances' = EmptyMap
  /\ calls' = Seen(calls, "other")
  /\ UNCHANGED <<bgmInstance, globalVolume, isPlayingBGM, audioManagerLock, mq, now>>
  /\ UNCHANGED <<plugin, resolution>>

\* ---------------------------------------------------------------- setVolume
\* lines 950-961; the media element refuses a volume outside [0, 1] and the
\* method throws after it has set globalVolume and targetVolume.
setVolumeMedia(v) ==
  IF bgmInstance = NULL THEN audio
  ELSE IF audio[bgmInstance].fadeInterval # 0 \/ ~VolumeOk(v)
  THEN [audio EXCEPT ![bgmInstance].targetVolume = v]
  ELSE [audio EXCEPT ![bgmInstance].targetVolume = v,
                     ![bgmInstance].volume = v,
                     ![bgmInstance].currentVolume = v]

SetVolume(v) ==
  /\ Invoke
  /\ globalVolume' = v
  /\ audio' = setVolumeMedia(v)
  /\ calls' = Seen(calls, "other")
  /\ UNCHANGED <<bgmInstance, sfxInstances, isPlayingBGM, audioManagerLock, timers,
                 mq, now>>
  /\ UNCHANGED <<plugin, resolution>>

\* ------------------------------------------------------------ pause / resume
\* audio.paused
Paused(a) == a.media \in {"paused", "failed"}

\* lines 985-992
Pause ==
  /\ Invoke
  /\ audio' = IF bgmInstance # NULL
              THEN [audio EXCEPT ![bgmInstance].media = "paused"]
              ELSE audio
  /\ calls' = Seen(calls, "other")
  /\ UNCHANGED <<bgmInstance, sfxInstances, globalVolume, isPlayingBGM,
                 audioManagerLock, timers, mq, now>>
  /\ UNCHANGED <<plugin, resolution>>

\* lines 995-1006.  audio.play() on the paused element either starts it or
\* is refused, and then its promise rejects into the .catch of line 998.
Resume(ok) ==
  /\ Invoke
  /\ audio' = IF bgmInstance # NULL /\ Paused(audio[bgmInstance]) /\ ok
              THEN [audio EXCEPT ![bgmInstance].media = "playing"]
              ELSE audio
  /\ calls' = Seen(calls, "other")
  /\ UNCHANGED <<bgmInstance, sfxInstances, globalVolume, isPlayingBGM,
                 audioManagerLock, timers, mq, now>>
  /\ UNCHANGED <<plugin, resolution>>

\* --------------------------------------------------- setupPlaybackControl
\* lines 846 / 863: applyRangeToLoop ? (loopStart || startTime || 0) : 0
\* (|| takes its right operand when the left one is undefined or 0)
loopOrigin(track) ==
  IF track.applyRangeToLoop
  THEN IF track.loopStart \notin {Undefined, 0} THEN track.loopStart
       ELSE IF track.startTime # 0 THEN track.startTime ELSE 0
  ELSE 0

\* A handler that at endTime would pause a track that does not loop where
\* it is, without the seek to startTime.
timeUpdatePauseOnly(a) ==
  IF a.track.endTime # 0 /\ a.pos >= a.track.endTime
  THEN IF a.track.loop # "false"
       THEN [a EXCEPT !.pos = loopOrigin(a.track), !.isLooping = TRUE]
       ELSE [a EXCEPT !.media = "paused"]
  ELSE a

\* lines 843-844: the tests under which timeUpdateHandler seeks to the loop
\* origin
loopsAtEndTime(a) ==
  a.track.endTime # 0 /\ a.pos >= a.track.endTime /\ a.track.loop # "false"

\* timeUpdateHandler, lines 839-857, on the instance a
timeUpdateHandler(a) ==
  IF loopsAtEndTime(a)
  THEN [a EXCEPT !.pos = loopOrigin(a.track), !.isLooping = TRUE]
  ELSE IF a.track.endTime # 0 /\ a.pos >= a.track.endTime
       THEN [a EXCEPT !.media = "paused", !.pos = a.track.startTime]
       ELSE a

\* An ended handler that would loop whether the flag is set or not.
loopsAtEndedAlways(a) == a.track.loop # "false"

\* line 861: the test under which endedHandler seeks to the loop origin
loopsAtEnded(a) == a.track.loop # "false" /\ ~a.isLooping

\* endedHandler, lines 860-869
endedHandler(a) ==
  IF loopsAtEnded(a)
  THEN [a EXCEPT !.pos = loopOrigin(a.track), !.media = "playing", !.isLooping = TRUE]
  ELSE a

\* audio.duration of the element of instance a
MediaDuration(a) == IF a.track.path = LongPath THEN LongDuration ELSE Duration

\* ------------------------------------------------------ position and rate
\* lines 1041-1043
getCurrentTime == IF bgmInstance # NULL THEN audio[bgmInstance].pos ELSE 0

\* lines 1046-1048
getDuration == IF bgmInstance # NULL THEN MediaDuration(audio[bgmInstance]) ELSE 0

\* lines 1051-1055
SetCurrentTime(time) ==
  /\ Invoke
  /\ audio' = IF bgmInstance # NULL
              THEN [audio EXCEPT ![bgmInstance].pos = Max(0, Min(time, getDuration))]
              ELSE audio
  /\ calls' = Seen(calls, "other")
  /\ UNCHANGED <<bgmInstance, sfxInstances, globalVolume, isPlayingBGM,
                 audioManagerLock, timers, mq, now>>
  /\ UNCHANGED <<plugin, resolution>>

\* A getPlaybackRate that would answer 0 for an empty slot.
getPlaybackRateOrZero ==
  IF bgmInstance # NULL THEN audio[bgmInstance].playbackRate ELSE 0

\* lines 1058-1060
getPlaybackRate ==
  IF bgmInstance # NULL THEN audio[bgmInstance].playbackRate ELSE DefaultRate

\* A setPlaybackRate that would bring the rate into the interval.
SetPlaybackRateClamped(rate) ==
  /\ Invoke
  /\ audio' = IF bgmInstance # NULL
              THEN LET r == Max(RateMin, Min(rate, RateMax))
                   IN [audio EXCEPT ![bgmInstance].playbackRate = r,
                                    ![bgmInstance].track.playbackRate = r]
              ELSE audio
  /\ calls' = Seen(calls, "other")
  /\ UNCHANGED <<bgmInstance, sfxInstances, globalVolume, isPlayingBGM,
                 audioManagerLock, timers, mq, now>>
  /\ UNCHANGED <<plugin, resolution>>

\* lines 1063-1069
SetPlaybackRate(rate) ==
  /\ Invoke
  /\ audio' = IF bgmInstance # NULL /\ RateOk(rate)
              THEN [audio EXCEPT ![bgmInstance].playbackRate = rate,
                                 ![bgmInstance].track.playbackRate = rate]
              ELSE audio
  /\ calls' = Seen(calls, "other")
  /\ UNCHANGED <<bgmInstance, sfxInstances, globalVolume, isPlayingBGM,
                 audioManagerLock, timers, mq, now>>
  /\ UNCHANGED <<plugin, resolution>>

\* The media element plays on by d seconds and fires timeupdate.
TimeUpdateBy(i, d) ==
  /\ mq = <<>>
  /\ i \in 1..Len(audio)
  /\ audio[i].media = "playing" /\ audio[i].pos < MediaDuration(audio[i])
  /\ LET a == [audio[i] EXCEPT !.pos = Min(@ + d, MediaDuration(audio[i]))]
     IN audio' = [audio EXCEPT ![i] = IF a.handlers THEN timeUpdateHandler(a) ELSE a]
  /\ UNCHANGED <<bgmInstance, sfxInstances, globalVolume, isPlayingBGM,
                 audioManagerLock, timers, calls, mq, now, invoked>>
  /\ UNCHANGED <<plugin, resolution>>

TimeUpdate(i) == TimeUpdateBy(i, 1)

\* The media element reaches the end of its resource.  With the native loop
\* attribute (an effect with loop: true) it seeks to 0 and plays on; else it
\* pauses and fires ended: the effect's listener (lines 637-640) deletes its
\* key from the map, the background handler is endedHandler.
Ended(i) ==
  /\ mq = <<>>
  /\ i \in 1..Len(audio)
  /\ audio[i].media = "playing" /\ audio[i].pos = MediaDuration(audio[i])
  /\ IF audio[i].loopAttr
     THEN /\ audio' = [audio EXCEPT ![i].pos = 0]
          /\ UNCHANGED sfxInstances
     ELSE LET a == [audio[i] EXCEPT !.media = "paused"]
          IN /\ audio' = [audio EXCEPT ![i] = IF a.handlers THEN endedHandler(a) ELSE a]
             /\ sfxInstances' = IF a.type = "sfx"
                                THEN MapDelete(sfxInstances, a.sfxId)
                                ELSE sfxInstances
  /\ UNCHANGED <<bgmInstance, globalVolume, isPlayingBGM, audioManagerLock, timers,
                 calls, mq, now, invoked>>
  /\ UNCHANGED <<plugin, resolution>>

\* An event of the media of a background instance that was queued before the
\* instance was stopped is dispatched after it: the listeners still attached
\* to the element run, those removed do not.
LateEvent(i, ev) ==
  /\ mq = <<>>
  /\ i \in 1..Len(audio)
  /\ audio[i].type = "bgm" /\ i # bgmInstance
  /\ audio[i].media = "paused" /\ audio[i].pos = 0
  /\ audio' = [audio EXCEPT ![i] = IF ~@.handlers THEN @
                                   ELSE IF ev = "ended" THEN endedHandler(@)
                                   ELSE timeUpdateHandler(@)]
  /\ UNCHANGED <<bgmInstance, sfxInstances, globalVolume, isPlayingBGM,
                 audioManagerLock, timers, calls, mq, now, invoked>>
  /\ UNCHANGED <<plugin, resolution>>

\* ------------------------------------------------------------ the plugin
\* lines 938-948
isPlaying ==
  \/ bgmInstance # NULL /\ ~Paused(audio[bgmInstance])
  \/ \E i \in Tracked : ~Paused(audio[i])

\* The callback of the toggle-playback command (main.ts 469-476) and the
\* click listener of the status bar item (main.ts 192-197): the same body.
TogglePlayback(ok) == IF isPlaying THEN Pause ELSE Resume(ok)

\* ---------------------------------------------------------- the environment
\* The clock moves on.  Date.now() is read only into the keys of the effects
\* (line 623), which are compared for equality: the clock is kept up to that,
\* it moves only past a value some key holds.
ClockTick ==
  /\ \E i \in 1..Len(audio) : audio[i].type = "sfx" /\ audio[i].sfxId[2] = now
  /\ now' = now + 1
  /\ UNCHANGED <<audio, bgmInstance, sfxInstances, globalVolume, isPlayingBGM,
                 audioManagerLock, timers, calls, mq, invoked>>
  /\ UNCHANGED <<plugin, resolution>>

Next ==
  \/ \E track \in BGMTracks : PlayBGM(track)
  \/ \E c \in 1..Len(calls) : BGMResolve(c)
  \/ \E c \in 1..Len(calls) : Resolved(c)
  \/ \E c \in 1..Len(calls) : ReadSettle(c)
  \/ \E track \in SFXTracks : PlaySFX(track)
  \/ \E c \in 1..Len(calls), ok \in BOOLEAN : PlaySettle(c, ok)
  \/ \E t \in 1..MaxCalls, d \in TickDeltas : FadeTick(t, d)
  \/ StopBGMNow
  \/ \E fo \in FadeOutTimes : StopBGMFade(fo)
  \/ StopAll
  \/ StopAllSFX
  \/ \E v \in SetVolumes : SetVolume(v)
  \/ Pause
  \/ \E ok \in BOOLEAN : Resume(ok)
  \/ \E time \in SetTimes : SetCurrentTime(time)
  \/ \E rate \in SetRates : SetPlaybackRate(rate)
  \/ \E ok \in BOOLEAN : TogglePlayback(ok)
  \/ \E i \in 1..Len(audio) : TimeUpdate(i)
  \/ \E i \in 1..Len(audio) : Ended(i)
  \/ ClockTick

Spec == Init /\ [][Next]_vars

\* What the event loop and the platform guarantee: a queued microtask runs, a
\* file read and a play() request settle, a running interval fires.  Nothing
\* obliges a caller to invoke a method, and nothing obliges media to play on.
Fairness ==
  /\ WF_vars(\E c \in 1..Len(calls) : BGMResolve(c))
  /\ WF_vars(\E c \in 1..Len(calls) : Resolved(c))
  /\ WF_vars(\E c \in 1..Len(calls) : ReadSettle(c))
  /\ WF_vars(\E c \in 1..Len(calls), ok \in BOOLEAN : PlaySettle(c, ok))
  /\ \A t \in 1..MaxCalls : WF_vars(\E d \in TickDeltas : FadeTick(t, d))

FairSpec == Spec /\ Fairness

\* ------------------------------------------------------------ getCurrentBGM
\* lines 930-932: this.bgmInstance?.track || null, the track being
\* { ...track, type: 'bgm' } (line 568).
getCurrentBGM ==
  IF bgmInstance = NULL THEN <<>>
  ELSE <<audio[bgmInstance].track, audio[bgmInstance].type>>

\* ================================================================== claims
IsBGMCall(C, c) == C[c].op = "playBGM"
PlayingBGM == {i \in 1..Len(audio) : audio[i].type = "bgm" /\ audio[i].media = "playing"}

\* C1: in every reachable state at most one background media element made by
\* the engine is playing (its play() has settled and nothing has paused it).
C1_AtMostOneBackgroundPlaying == Cardinality(PlayingBGM) <= 1

\* C2: two playBGM calls are never in flight together: a second call does not
\* take the lock and run its first steps (cleanup, force-stop) before the
\* first has reached its finally.
C2_CallsDoNotInterleave ==
  \A c1, c2 \in 1..Len(calls) :
    (c1 < c2 /\ IsBGMCall(calls, c1) /\ IsBGMCall(calls, c2))
      => ~(InFlight(c1) /\ InFlight(c2))

\* C3: playBGM(B) is invoked while playBGM(A) is in flight, nothing else is
\* invoked and both native starts succeed: in the step that completes the
\* second of the two calls, A's media is stopped, the slot holds B's instance
\* and no background media other than B's is playing.
C3_LaterCallWins ==
  [][\A a, b \in 1..Len(calls') :
       ( /\ a < b /\ IsBGMCall(calls', a) /\ IsBGMCall(calls', b)
         /\ invoked' = 2
         /\ calls'[b].ops = "play"
         /\ calls'[a].pc = "done" /\ calls'[b].pc = "done"
         /\ (InFlight(a) \/ InFlight(b))
         /\ calls'[a].failed = "none" /\ calls'[b].failed = "none" )
       => ( /\ bgmInstance' = calls'[b].inst
            /\ audio'[calls'[a].inst].media = "paused"
            /\ PlayingBGM' \subseteq {calls'[b].inst} )]_vars

\* C4: every playBGM call reaches its finally (line 612), which releases the
\* lock, whatever else is invoked while it is in flight.
C4_LockReleased ==
  \A c \in 1..MaxCalls :
    (c <= Len(calls) /\ calls[c].op = "playBGM")
      ~> (c <= Len(calls) /\ calls[c].pc = "done")

\* The call c ends in this step.
Ends(c) == c <= Len(calls) /\ InFlight(c) /\ calls'[c].pc = "done"

\* C5 (as claimed): when a playBGM call ends after one of its steps failed
\* (path resolution, native start, applying the volume), the slot is empty.
C5_FailureLeavesSlotEmpty ==
  [][\A c \in 1..Len(calls) :
       (Ends(c) /\ IsBGMCall(calls, c) /\ calls'[c].failed # "none")
         => bgmInstance' = NULL]_vars

Stopped(a) == a.media = "paused" /\ a.pos = 0 /\ ~a.handlers

\* The play call c takes a step of its start-up (lines 563-596 / 620-645).
StartsUp(c) ==
  /\ calls[c].op \in {"playBGM", "playSFX"}
  /\ calls[c].pc \in {"forceStopped", "resolved", "reading", "starting"}
  /\ calls'[c].pc # calls[c].pc

\* A method is invoked in this step and its call record is the last one.
Invoked(op) == Len(calls') = Len(calls) + 1 /\ calls'[Len(calls')].op = op

\* C7 (as claimed): when a play call that ran alone ends with a failed native
\* start, the instance the slot held when it was invoked has not been
\* stopped (it plays, or it was paused by the user or by its own end, which
\* leave its handlers attached).
C7_FailedStartLeavesSlotInstance ==
  [][\A c \in 1..Len(calls) :
       ( /\ Ends(c) /\ calls'[c].failed = "start"
         /\ calls[c].ops = "none" /\ calls[c].prev # NULL )
       => ~Stopped(audio'[calls[c].prev])]_vars

\* C7 (amended): no step of a play call up to and including its native
\* start, failed or not, changes an instance other than the call's own, with
\* one exception: the invocation of playBGM force-stops the instance in the
\* slot and empties the slot.  A failed path resolution or native start
\* changes neither the slot nor the effect map nor a fade.  So a failed playSFX leaves all playback as it
\* was, and a failed playBGM leaves the effects as they were and the former
\* background instance stopped.
C7_FailedStartFrame ==
  [][/\ \A c \in 1..Len(calls) :
          /\ StartsUp(c) =>
               \A i \in 1..Len(audio) : i # calls'[c].inst => audio'[i] = audio[i]
          /\ (StartsUp(c) /\ calls'[c].failed \in {"resolve", "start"}) =>
               /\ bgmInstance' = bgmInstance
               /\ sfxInstances' = sfxInstances
               /\ timers' = timers
          /\ ( /\ Ends(c) /\ IsBGMCall(calls, c) /\ calls'[c].failed = "start"
               /\ calls[c].ops = "none" /\ calls[c].prev # NULL )
             => Stopped(audio'[calls[c].prev])
     /\ Invoked("playSFX") =>
          audio' = audio /\ bgmInstance' = bgmInstance
            /\ sfxInstances' = sfxInstances /\ timers' = timers
     /\ Invoked("playBGM") =>
          /\ \A i \in 1..Len(audio) : i # bgmInstance => audio'[i] = audio[i]
          /\ sfxInstances' = sfxInstances
          /\ bgmInstance # NULL =>
               Stopped(audio'[bgmInstance]) /\ bgmInstance' = NULL]_vars

\* A play call has failed to start while another instance, in the slot or in
\* the effect map, is playing.
C7_Witness ==
  \E c \in 1..Len(calls) :
    /\ calls[c].pc = "done" /\ calls[c].failed = "start"
    /\ \E i \in 1..Len(audio) :
         /\ i # calls[c].inst /\ audio[i].media = "playing"
         /\ i = bgmInstance \/ \E k \in DOMAIN sfxInstances : sfxInstances[k] = i

\* C8: for a playBGM(d) call that runs with nothing else interleaved and whose
\* native start succeeds: the instance the slot held at the invocation is
\* stopped (paused, position 0, handlers detached) from the invocation on;
\* the new media is started at volume 0; its instance is not in the slot
\* while the native start is pending and is in the slot when the fade-in
\* has not ticked yet; and when the call ends getCurrentBGM returns d tagged
\* 'bgm'.
C8_PlayBGMAlone ==
  [][\A c \in 1..Len(calls') :
       (IsBGMCall(calls', c) /\ calls'[c].ops = "none") =>
         LET call == calls'[c] IN
           /\ (call.pc # "done" /\ call.prev # NULL) => Stopped(audio'[call.prev])
           /\ call.pc = "starting" =>
                /\ audio'[call.inst].volume = 0
                /\ audio'[call.inst].media = "loading"
                /\ bgmInstance' # call.inst
           /\ call.pc \in {"forceStopped", "resolved", "reading"} =>
                call.inst = NULL /\ bgmInstance' = NULL
           /\ (call.pc = "fading" /\ c \in DOMAIN timers' /\ timers'[c].ticks = 0) =>
                bgmInstance' = call.inst /\ audio'[call.inst].volume = 0
           /\ (Ends(c) /\ call.failed = "none") =>
                /\ getCurrentBGM' = <<calls[c].track, "bgm">>
                /\ bgmInstance' = call.inst
                /\ calls[c].prev # NULL => Stopped(audio'[calls[c].prev])]_vars

\* A second playBGM has run alone and ended well after a first one.
C8_Witness ==
  \E c \in 1..Len(calls) :
    /\ IsBGMCall(calls, c) /\ calls[c].pc = "done"
    /\ calls[c].failed = "none" /\ calls[c].ops = "none"
    /\ bgmInstance = calls[c].inst
    /\ \E i \in 1..Len(audio) :
         i # bgmInstance /\ audio[i].type = "bgm" /\ Stopped(audio[i])

\* ------------------------------------------------------ the fades on their own
\* One background track is started with a fade-in and stopped with a
\* fade-out, over longer ramps, more targets and uneven tick spacing than
\* Spec affords.  The targets are volumes the media element accepts; a track
\* volume of 0 stands for none given (the global volume applies).
FadeVolumes == {0, 1, 333, 1000}
FadeTimes == {0, 50, 100}
FadeDeltas == {TickMs, TickMs + 1, 2 * TickMs + 1}
FadeTracks ==
  {Track(RemotePath, v, D, "undefined", 0, 0, 0, FALSE) : v \in FadeVolumes, D \in FadeTimes}

NextFade ==
  \/ \E track \in FadeTracks : PlayBGM(track)
  \/ \E c \in 1..Len(calls) : BGMResolve(c)
  \/ \E c \in 1..Len(calls) : Resolved(c)
  \/ \E c \in 1..Len(calls) : PlaySettle(c, TRUE)
  \/ \E fo \in FadeTimes : StopBGMFade(fo)
  \/ \E t \in 1..MaxCalls, d \in FadeDeltas : FadeTick(t, d)

SpecFade == Init /\ [][NextFade]_vars

\* The interval t fires in this step and is still there after it.
Ticks(t) ==
  t \in DOMAIN timers /\ t \in DOMAIN timers' /\ timers'[t].elapsed # timers[t].elapsed

\* C9: a fade-in from 0 to a target T the media element accepts, over D ms:
\* each tick assigns a volume no lower than the tick before and no higher
\* than T; the awaiting call goes on exactly when a tick finds D ms or more
\* elapsed, which is the first such tick, and that tick leaves the volume T.
C9_FadeInRamp ==
  [][\A t \in DOMAIN timers :
       (timers[t].kind = "in" /\ timers[t].startVolume = 0
          /\ VolumeOk(timers[t].targetVolume)) =>
         LET tm == timers[t] IN
           /\ Ticks(t) =>
                /\ timers'[t].assigned >= tm.assigned
                /\ timers'[t].assigned <= tm.targetVolume
                /\ audio'[tm.inst].volume = timers'[t].assigned
                /\ (timers'[t].elapsed >= tm.duration) <=> (calls'[t].pc = "done")
                /\ timers'[t].elapsed >= tm.duration =>
                     timers'[t].assigned = tm.targetVolume
           /\ Ends(t) =>
                /\ tm.elapsed < tm.duration
                /\ audio'[tm.inst].volume = tm.targetVolume
                /\ audio'[tm.inst].currentVolume = tm.targetVolume
                /\ calls'[t].result = "fulfilled"]_vars

\* A playBGM with a fade-in has ended: its ramp has run to its target.
C9_Witness ==
  \E c \in 1..Len(calls) :
    /\ IsBGMCall(calls, c) /\ calls[c].pc = "done" /\ calls[c].failed = "none"
    /\ audio[calls[c].inst].track.fadeIn > 0
    /\ audio[calls[c].inst].media = "playing"
    /\ audio[calls[c].inst].volume = audio[calls[c].inst].targetVolume
    /\ audio[calls[c].inst].volume > 0

\* C10: a fade-out over D ms from the volume the instance has: each tick
\* assigns a volume no higher than the tick before and never below 0; the
\* awaiting stopBGM goes on at a tick that leaves the volume exactly 0, and
\* no tick that finds D ms or more elapsed leaves it waiting.
C10_FadeOutRamp ==
  [][\A t \in DOMAIN timers :
       timers[t].kind = "out" =>
         LET tm == timers[t] IN
           /\ Ticks(t) =>
                /\ timers'[t].assigned <= tm.assigned
                /\ timers'[t].assigned >= 0
                /\ audio'[tm.inst].volume = timers'[t].assigned
                /\ timers'[t].elapsed >= tm.duration =>
                     timers'[t].assigned = 0 /\ calls'[t].pc = "done"
           /\ Ends(t) =>
                /\ tm.elapsed < tm.duration
                /\ audio'[tm.inst].volume = 0
                /\ audio'[tm.inst].currentVolume = 0]_vars

\* A stopBGM with a fade-out has ended on a track that was started without
\* a fade-in, so at its full volume.
C10_Witness ==
  \E c \in 1..Len(calls) :
    /\ calls[c].op = "stopBGM" /\ calls[c].pc = "done"
    /\ calls[c].result = "fulfilled"
    /\ audio[calls[c].inst].track.fadeIn = 0
    /\ audio[calls[c].inst].targetVolume > 0
    /\ audio[calls[c].inst].volume = 0
    /\ Stopped(audio[calls[c].inst])

\* ------------------------------------------------------------------- ramps
\* The intervals that run on instance i.
RampsOn(i) == {t \in DOMAIN timers : timers[t].inst = i}

\* C11 (as claimed): at most one ramp interval runs on an instance.
C11_OneRampPerInstance ==
  \A i \in 1..Len(audio) : Cardinality(RampsOn(i)) <= 1

\* ------------------------------------------------- the playback range alone
\* One background track with a range (startTime, endTime, loopStart,
\* applyRangeToLoop, loop) on the long resource, played, paused, resumed and
\* stopped; the element reports its position in steps of 5 or 10 seconds.
RangeSteps == {5, 10}
RangeTracks ==
  {Track(LongPath, 0, 0, loop, st, et, ls, apply) :
     loop \in {"undefined", "false"}, st \in {0, 10}, et \in {0, 20},
     ls \in {Undefined, 0, 12}, apply \in BOOLEAN}

NextRange ==
  \/ \E track \in RangeTracks : PlayBGM(track)
  \/ \E c \in 1..Len(calls) : BGMResolve(c)
  \/ \E c \in 1..Len(calls) : Resolved(c)
  \/ \E c \in 1..Len(calls) : PlaySettle(c, TRUE)
  \/ \E i \in 1..Len(audio), d \in RangeSteps : TimeUpdateBy(i, d)
  \/ \E i \in 1..Len(audio) : Ended(i)
  \/ StopBGMNow
  \/ StopAll
  \/ Pause
  \/ \E ok \in BOOLEAN : Resume(ok)
  \/ \E i \in 1..Len(audio), ev \in {"timeupdate", "ended"} : LateEvent(i, ev)

SpecRange == Init /\ [][NextRange]_vars

\* The element of instance i, a background track whose handlers are
\* attached, reports a position in this step.
PositionTick(i) ==
  /\ audio[i].type = "bgm" /\ audio[i].handlers
  /\ audio[i].media = "playing" /\ audio[i].pos < MediaDuration(audio[i])
  /\ audio'[i] # audio[i]
  /\ bgmInstance' = bgmInstance /\ invoked' = invoked

\* The position the element reports in a position tick of i is one of these.
Reported(i) ==
  {Min(audio[i].pos + d, MediaDuration(audio[i])) : d \in RangeSteps \cup {1}}

\* The loop origin as described: loopStart if it is given, 0 included, else
\* startTime, else 0, when applyRangeToLoop; 0 when not.
OriginWithNullish(track) ==
  IF track.applyRangeToLoop
  THEN IF track.loopStart # Undefined THEN track.loopStart ELSE track.startTime
  ELSE 0

\* C12 (as claimed): a position tick of a looping background track with
\* endTime that reports a position at or past endTime seeks to the origin
\* described above.
C12_LoopOriginNullish ==
  [][\A i \in 1..Len(audio) :
       ( /\ PositionTick(i)
         /\ audio[i].track.loop # "false" /\ audio[i].track.endTime > 0 )
       => \E p \in Reported(i) :
            audio'[i].pos = IF p >= audio[i].track.endTime
                            THEN OriginWithNullish(audio[i].track) ELSE p]_vars

\* C13: a position tick of a background track with loop: false and endTime
\* that reports a position at or past endTime pauses the media and seeks to
\* startTime (0 when none is given); a tick before endTime lets it play on.
\* Such a track goes from paused to playing only when resume() is invoked on
\* it: no event of the media and no timer restarts it.
C13_EndTimeStops ==
  [][\A i \in 1..Len(audio) :
       (audio[i].type = "bgm" /\ audio[i].track.loop = "false"
          /\ audio[i].track.endTime > 0) =>
         /\ PositionTick(i) =>
              \E p \in Reported(i) :
                IF p >= audio[i].track.endTime
                THEN /\ audio'[i].media = "paused"
                     /\ audio'[i].pos = audio[i].track.startTime
                ELSE /\ audio'[i].media = "playing"
                     /\ audio'[i].pos = p
         /\ (audio[i].media = "paused" /\ audio'[i].media = "playing") =>
              i = bgmInstance /\ invoked' = invoked + 1]_vars

\* The only method invoked was playBGM, of a track from 10 to 20 that does
\* not loop, and the track has been paused at 10 by its handler.
C13_Witness ==
  /\ invoked = 1 /\ bgmInstance # NULL
  /\ audio[bgmInstance].track.loop = "false"
  /\ audio[bgmInstance].track.endTime = 20
  /\ audio[bgmInstance].track.startTime = 10
  /\ audio[bgmInstance].media = "paused" /\ audio[bgmInstance].pos = 10

\* The media of instance i, a background track whose handlers are attached,
\* reaches the end of its resource in this step.
NaturalEnd(i) ==
  /\ audio[i].type = "bgm" /\ audio[i].handlers
  /\ audio[i].media = "playing" /\ audio[i].pos = MediaDuration(audio[i])
  /\ audio'[i] # audio[i]
  /\ invoked' = invoked /\ timers' = timers

\* C14 (as claimed): every natural end of a looping background track without
\* endTime seeks to the loop origin and plays on.
C14_LoopsAtEveryEnd ==
  [][\A i \in 1..Len(audio) :
       ( /\ NaturalEnd(i)
         /\ audio[i].track.loop # "false" /\ audio[i].track.endTime = 0 )
       => /\ audio'[i].media = "playing"
          /\ audio'[i].pos = loopOrigin(audio[i].track)]_vars

\* C15: each operation that takes a background instance out of the slot and
\* leaves the slot empty (stopBGM, stopAll, the force-stop of playBGM) leaves
\* it paused at 0 with its two range handlers detached; the handlers are
\* never attached again, and from then on no step, an event of its media
\* dispatched late included, moves its position or restarts it.
C15_StoppedStaysStopped ==
  [][\A i \in 1..Len(audio) :
       audio[i].type = "bgm" =>
         /\ (bgmInstance = i /\ bgmInstance' = NULL) => Stopped(audio'[i])
         /\ ~audio[i].handlers =>
              /\ ~audio'[i].handlers
              /\ audio'[i].pos = audio[i].pos
              /\ audio'[i].media = audio[i].media]_vars

\* A background track that had played through its end and looped was
\* stopped, and the slot is empty.
C15_Witness ==
  /\ bgmInstance = NULL
  /\ \E i \in 1..Len(audio) :
       audio[i].type = "bgm" /\ audio[i].isLooping /\ Stopped(audio[i])

\* C16 (as claimed): no ramp interval runs on an instance that has been
\* stopped.
C16_NoRampOnStopped ==
  \A i \in 1..Len(audio) : Stopped(audio[i]) => RampsOn(i) = {}

\* ------------------------------------------------------------------ stopBGM
\* stopBGM is invoked without a fade in this step: the only method that
\* adds no call, empties a slot that was full and leaves the effects alone.
StopsNow ==
  /\ invoked' = invoked + 1 /\ Len(calls') = Len(calls)
  /\ bgmInstance # NULL /\ bgmInstance' = NULL
  /\ sfxInstances' = sfxInstances /\ isPlayingBGM' = isPlayingBGM

\* C17: stopBGM with a fade leaves the media, its position and the slot as
\* they are when it is invoked, and so does every tick of its fade-out but
\* the one that ends it; that tick leaves the volume at 0, and only then is
\* the slot's instance stopped and the slot emptied.  stopBGM without a fade
\* stops the slot's instance and empties the slot in the step of its
\* invocation.
C17_StopAfterFade ==
  [][/\ Invoked("stopBGM") =>
          /\ bgmInstance' = bgmInstance /\ bgmInstance # NULL
          /\ audio'[bgmInstance].media = audio[bgmInstance].media
          /\ audio'[bgmInstance].pos = audio[bgmInstance].pos
          /\ audio'[bgmInstance].volume = audio[bgmInstance].volume
          /\ audio'[bgmInstance].handlers = audio[bgmInstance].handlers
     /\ \A c \in 1..Len(calls) :
          (calls[c].op = "stopBGM" /\ InFlight(c)) =>
            /\ (Ticks(c) /\ ~Ends(c)) =>
                 /\ bgmInstance' = bgmInstance
                 /\ audio'[calls[c].inst].media = audio[calls[c].inst].media
                 /\ audio'[calls[c].inst].pos = audio[calls[c].inst].pos
            /\ Ends(c) =>
                 /\ audio'[calls[c].inst].volume = 0
                 /\ calls'[c].result = "fulfilled" =>
                      /\ bgmInstance # NULL /\ bgmInstance' = NULL
                      /\ Stopped(audio'[bgmInstance])
     /\ (bgmInstance # NULL /\ bgmInstance' = NULL /\ invoked' = invoked) =>
          \E c \in 1..Len(calls) : calls[c].op = "stopBGM" /\ Ends(c)
     /\ StopsNow => Stopped(audio'[bgmInstance])]_vars

\* A stopBGM with a fade has ended: the instance it faded out is stopped at
\* volume 0 and the slot is empty.
C17_Witness ==
  /\ bgmInstance = NULL
  /\ \E c \in 1..Len(calls) :
       /\ calls[c].op = "stopBGM" /\ calls[c].pc = "done"
       /\ calls[c].result = "fulfilled"
       /\ audio[calls[c].inst].type = "bgm"
       /\ audio[calls[c].inst].volume = 0
       /\ audio[calls[c].inst].media = "paused"
       /\ audio[calls[c].inst].pos = 0

\* ------------------------------------------------------------- the effects
Effects == {i \in 1..Len(audio) : audio[i].type = "sfx"}

\* C18 (as claimed): two effect instances never have the same key, and every
\* effect that is playing is an entry of the map (so stopAllSFX reaches it).
C18_DistinctKeysAllTracked ==
  /\ \A i, j \in Effects : i # j => audio[i].sfxId # audio[j].sfxId
  /\ \A i \in Effects : audio[i].media = "playing" => i \in Tracked

\* The media of the effect i ends in this step.
EffectEnds(i) ==
  /\ audio[i].type = "sfx"
  /\ audio[i].media = "playing" /\ audio[i].pos = MediaDuration(audio[i])
  /\ audio'[i].media = "paused"
  /\ invoked' = invoked

\* C19 (as claimed): when the media of an effect ends, the map holds no
\* entry of that effect any more and every entry of another effect is kept.
C19_EndRemovesOwnEntryOnly ==
  [][\A i \in 1..Len(audio) :
       EffectEnds(i) =>
         /\ \A k \in DOMAIN sfxInstances' : sfxInstances'[k] # i
         /\ \A k \in DOMAIN sfxInstances :
              sfxInstances[k] # i =>
                k \in DOMAIN sfxInstances' /\ sfxInstances'[k] = sfxInstances[k]]_vars

\* C20 (as claimed): no step of a playSFX call up to and including its native
\* start changes the slot, an instance other than the call's own or an entry
\* of the map; the step in which the start succeeds adds one entry to the
\* map, every other step of the call leaves the map as it is.
C20_PlaySFXOnlyAdds ==
  [][/\ Invoked("playSFX") =>
          audio' = audio /\ bgmInstance' = bgmInstance /\ sfxInstances' = sfxInstances
     /\ \A c \in 1..Len(calls) :
          (StartsUp(c) /\ calls[c].op = "playSFX") =>
            /\ bgmInstance' = bgmInstance
            /\ \A i \in 1..Len(audio) : i # calls'[c].inst => audio'[i] = audio[i]
            /\ \A k \in DOMAIN sfxInstances :
                 k \in DOMAIN sfxInstances' /\ sfxInstances'[k] = sfxInstances[k]
            /\ IF calls[c].pc = "starting" /\ audio'[calls[c].inst].media = "playing"
               THEN /\ Cardinality(DOMAIN sfxInstances')
                         = Cardinality(DOMAIN sfxInstances) + 1
                    /\ calls[c].inst \in {sfxInstances'[k] : k \in DOMAIN sfxInstances'}
               ELSE sfxInstances' = sfxInstances]_vars

\* ------------------------------------------- with a background track playing
\* The state after playBGM of a track has run alone up to its start: the
\* instance is in the slot and plays, at its target volume and the call
\* ended, or at volume 0 with the call waiting for the fade-in it started;
\* in the former case the track may have been paused since, in the latter a
\* stopBGM with a fade-out may have been invoked.
\* From there every operation of Next, within the same bound on invocations.
PlayingTracks ==
  {Track(RemotePath, 0, 0, "undefined", 0, 0, 0, FALSE),
   Track(RemotePath, 500, 0, "false", 0, 0, 0, FALSE),
   Track(RemotePath, 500, 32, "undefined", 0, 0, 0, FALSE)}

InitPlaying ==
  \E track \in PlayingTracks, stopping \in BOOLEAN, paused \in BOOLEAN :
    LET tv == targetVolumeOf(track, DefaultVolume)
        fade == track.fadeIn > 0
        fadeIn == NewTimer("in", 1, 0, tv, track.fadeIn, 1)
        fadeOut == NewTimer("out", 1, 0, 0, 32, 2)
        play == [op |-> "playBGM", pc |-> IF fade THEN "fading" ELSE "done",
                 track |-> IF fade THEN track ELSE NoTrack, inst |-> 1,
                 fadeOut |-> 0,
                 result |-> IF fade THEN "pending" ELSE "fulfilled",
                 failed |-> "none", prev |-> NULL,
                 ops |-> IF stopping THEN "other" ELSE "none"]
        stop == [op |-> "stopBGM", pc |-> "fadingOut", track |-> NoTrack,
                 inst |-> 1, fadeOut |-> 32, result |-> "pending",
                 failed |-> "none", prev |-> 1, ops |-> "other"]
    IN
    /\ stopping => fade
    /\ paused => ~fade
    /\ plugin = DefaultPlugin
    /\ resolution = Idle
    /\ audio = <<[NewBGM(track, DefaultVolume) EXCEPT
                    !.media = IF paused THEN "paused" ELSE "playing",
                    !.volume = IF fade THEN 0 ELSE tv,
                    !.currentVolume = IF fade THEN 0 ELSE tv,
                    !.fadeInterval = IF stopping THEN 2 ELSE IF fade THEN 1 ELSE 0]>>
    /\ bgmInstance = 1
    /\ sfxInstances = EmptyMap
    /\ globalVolume = DefaultVolume
    /\ isPlayingBGM = TRUE
    /\ audioManagerLock = fade
    /\ timers = IF stopping
                THEN setInterval(setInterval(NoTimers, 1, fadeIn), 2, fadeOut)
                ELSE IF fade THEN setInterval(NoTimers, 1, fadeIn) ELSE NoTimers
    /\ calls = IF stopping THEN <<play, stop>> ELSE <<play>>
    /\ mq = <<>>
    /\ now = 0
    /\ invoked = 0

SpecPlaying == InitPlaying /\ [][Next]_vars

\* stopAllSFX is invoked in this step on a map that is not empty: a method
\* that adds no call, empties the map and leaves the slot and isPlayingBGM.
StopsEffects ==
  /\ invoked' = invoked + 1 /\ Len(calls') = Len(calls)
  /\ sfxInstances # EmptyMap /\ sfxInstances' = EmptyMap
  /\ bgmInstance' = bgmInstance /\ isPlayingBGM' = isPlayingBGM

\* C21: stopAllSFX leaves the map empty and every instance that was in it
\* paused at position 0, whether it was fading in or not; the slot, every
\* instance outside the map and the running fades of those are as before.
C21_StopAllSFX ==
  [][StopsEffects =>
       /\ \A i \in Tracked : audio'[i].media = "paused" /\ audio'[i].pos = 0
       /\ \A i \in 1..Len(audio) : i \notin Tracked => audio'[i] = audio[i]
       /\ \A i \in Tracked :
            audio[i].fadeInterval # 0 => audio[i].fadeInterval \notin DOMAIN timers'
       /\ \A t \in DOMAIN timers :
            timers[t].inst \notin Tracked =>
              t \in DOMAIN timers' /\ timers'[t] = timers[t]]_vars

\* The background track plays in the slot, the map is empty, and an effect
\* that had been started has been stopped.
C21_Witness ==
  /\ bgmInstance # NULL /\ audio[bgmInstance].media = "playing"
  /\ sfxInstances = EmptyMap
  /\ invoked = 2
  /\ \E i \in Effects :
       audio[i].media = "paused" /\ audio[i].pos = 0 /\ audio[i].volume > 0

\* ---------------------------------------------------------------- volumes
\* lines 1013-1016
getVolume == globalVolume

\* A ramp that has not resolved yet runs on instance i.
FadeActive(i) == \E t \in RampsOn(i) : ~timers[t].resolved

\* C22: setVolume(v), for a volume v the media element accepts, sets the
\* global volume (what getVolume returns) and the target volume of the
\* slot's instance to v in the step of its invocation; it assigns v to the
\* volume and the current volume of that instance if no fade is active on
\* it and leaves them as they are if one is; it changes nothing else of that
\* instance, no other instance, no fade, and neither the slot nor the map.
C22_SetVolume ==
  [][\A v \in SetVolumes :
       (VolumeOk(v) /\ SetVolume(v)) =>
         /\ getVolume' = v
         /\ bgmInstance' = bgmInstance /\ sfxInstances' = sfxInstances
         /\ timers' = timers
         /\ \A i \in 1..Len(audio) : i # bgmInstance => audio'[i] = audio[i]
         /\ bgmInstance # NULL =>
              LET a == audio[bgmInstance] IN
                audio'[bgmInstance] =
                  IF FadeActive(bgmInstance)
                  THEN [a EXCEPT !.targetVolume = v]
                  ELSE [a EXCEPT !.targetVolume = v, !.volume = v,
                                 !.currentVolume = v]]_vars

\* The instance the step creates, if it creates one.
Created == IF Len(audio') > Len(audio) THEN {Len(audio')} ELSE {}

\* C23: the target volume of a new background or effect instance is the
\* volume of its descriptor whenever the descriptor has one, 0 included, and
\* the global volume only when it has none.
C23_TargetVolumeOfDescriptor ==
  [][\A i \in Created :
       audio'[i].targetVolume =
         IF audio'[i].track.volume # Undefined THEN audio'[i].track.volume
         ELSE globalVolume]_vars

\* A volume brought into [0, 1].
Clamp(v) == Max(0, Min(v, 1000))

\* The call whose audio.play() settles well in this step, without a fade-in.
Snaps(c) ==
  /\ calls[c].pc = "starting" /\ calls'[c].pc # "starting"
  /\ calls[c].track.fadeIn = 0
  /\ audio'[calls[c].inst].media = "playing"

\* The ramp that runs its callback in this step at or past its duration.
LastTick(t) ==
  /\ t \in DOMAIN timers'
  /\ timers'[t].elapsed > timers[t].elapsed
  /\ timers'[t].elapsed >= timers[t].duration

\* C24: the volume of every media element is in [0, 1] after every step, and
\* a snap to the target, a ramp at its end and a setVolume outside a fade
\* leave the element at the target brought into [0, 1].
C24_VolumesClamped ==
  [][/\ \A i \in 1..Len(audio') : VolumeOk(audio'[i].volume)
     /\ \A c \in 1..Len(calls) :
          Snaps(c) =>
            audio'[calls[c].inst].volume = Clamp(audio[calls[c].inst].targetVolume)
     /\ \A t \in DOMAIN timers :
          LastTick(t) =>
            audio'[timers[t].inst].volume = Clamp(FinalVolume(timers[t]))
     /\ \A v \in SetVolumes :
          (SetVolume(v) /\ bgmInstance # NULL /\ ~FadeActive(bgmInstance)) =>
            audio'[bgmInstance].volume = Clamp(v)]_vars

\* ------------------------------------------------------------ playback rate
\* C25: a new background instance has the rate of its descriptor if that is
\* within [0.25, 4.0] and the rate of a new element if it is not or if there
\* is none; setPlaybackRate(rate) with the rate within the interval sets the
\* rate of the slot's instance to it, and with a rate outside it changes
\* nothing; every instance's rate is within the interval after every step.
C25_RateOutsideIgnored ==
  [][/\ \A i \in Created :
          audio'[i].type = "bgm" =>
            audio'[i].playbackRate =
              IF audio'[i].track.playbackRate # 0 /\ RateOk(audio'[i].track.playbackRate)
              THEN audio'[i].track.playbackRate
              ELSE DefaultRate
     /\ \A rate \in SetRates :
          SetPlaybackRate(rate) =>
            /\ (bgmInstance # NULL /\ RateOk(rate)) => getPlaybackRate' = rate
            /\ ~(bgmInstance # NULL /\ RateOk(rate)) =>
                 audio' = audio /\ getPlaybackRate' = getPlaybackRate
     /\ \A i \in 1..Len(audio') : RateOk(audio'[i].playbackRate)]_vars

\* A track whose descriptor has no rate plays at rate 2.0: it was started
\* at the rate of a new element and setPlaybackRate(2.0) was applied to it.
C25_Witness ==
  /\ bgmInstance # NULL
  /\ audio[bgmInstance].track.path = LocalPath
  /\ audio[bgmInstance].media = "playing"
  /\ getPlaybackRate = 2000

\* -------------------------------------------------- the slot's own controls
\* Nothing of the engine changes in the step.
EngineUnchanged ==
  UNCHANGED <<audio, bgmInstance, sfxInstances, globalVolume, isPlayingBGM,
              audioManagerLock, timers, mq, now>>

\* No call is added and none settles in the step: the method that ran
\* returned to its caller, with nothing left behind to reject later.
ReturnsNormally ==
  /\ Len(calls') = Len(calls)
  /\ \A c \in 1..Len(calls) : calls'[c].result = calls[c].result

\* C27: with an empty slot, pause, resume, setCurrentTime and setPlaybackRate
\* change nothing of the engine and return normally, and getCurrentTime,
\* getDuration and getPlaybackRate answer 0, 0 and 1.0; resume on an instance
\* that plays changes nothing; a resume the platform refuses changes nothing
\* and returns normally.
C27_EmptySlotControls ==
  [][/\ bgmInstance = NULL =>
          getCurrentTime = 0 /\ getDuration = 0 /\ getPlaybackRate = DefaultRate
     /\ (bgmInstance = NULL /\
          \/ Pause
          \/ \E ok \in BOOLEAN : Resume(ok)
          \/ \E time \in SetTimes : SetCurrentTime(time)
          \/ \E rate \in SetRates : SetPlaybackRate(rate))
          => EngineUnchanged /\ ReturnsNormally
     /\ (bgmInstance # NULL /\ ~Paused(audio[bgmInstance]) /\
          \E ok \in BOOLEAN : Resume(ok))
          => EngineUnchanged /\ ReturnsNormally
     /\ Resume(FALSE) => EngineUnchanged /\ ReturnsNormally]_vars

\* The track that was playing was stopped and one more method was invoked
\* on the empty slot: the stopped instance is as the stop left it.
C27_Witness ==
  /\ invoked = 2
  /\ bgmInstance = NULL /\ Len(audio) = 1 /\ sfxInstances = EmptyMap
  /\ audio[1].media = "paused" /\ audio[1].pos = 0
  /\ getPlaybackRate = DefaultRate /\ getCurrentTime = 0 /\ getDuration = 0

\* C28: the toggle pauses the slot's track when it plays and, unless the
\* platform refuses the play, resumes it when it is paused, whatever the
\* effects do.
C28_ToggleFollowsBackground ==
  [][\A ok \in BOOLEAN :
       (TogglePlayback(ok) /\ bgmInstance # NULL) =>
         IF Paused(audio[bgmInstance])
         THEN ok => ~Paused(audio'[bgmInstance])
         ELSE Paused(audio'[bgmInstance])]_vars

\* ------------------------------------------- resolveAudioPath on its strings
\* A string is the sequence of its characters.
Http == <<"h", "t", "t", "p", ":", "/", "/">>
Https == <<"h", "t", "t", "p", "s", ":", "/", "/">>
Data == <<"d", "a", "t", "a", ":">>
AppLocal == <<"a", "p", "p", ":", "/", "/", "l", "o", "c", "a", "l", "/">>

\* String.prototype.startsWith
startsWith(s, prefix) ==
  Len(s) >= Len(prefix) /\ SubSeq(s, 1, Len(prefix)) = prefix

\* s.replace(/\\/g, '/')
replaceBackslashes(s) == [i \in 1..Len(s) |-> IF s[i] = "\\" THEN "/" ELSE s[i]]

\* URL.createObjectURL(blob)
BlobUrl == <<"b", "l", "o", "b", ":", "1">>

\* A fallback that would hand the path back whatever the base path is.
fallbackNone(path, base) == path

\* lines 900-913: `app://local/` followed by basePath/path with its
\* backslashes turned, if the adapter has a non-empty basePath; else the path
fallbackUrl(path, base) ==
  IF base # <<>>
  THEN AppLocal \o replaceBackslashes(base \o <<"/">> \o path)
  ELSE path

\* lines 880-885
isUrl(path) ==
  startsWith(path, Http) \/ startsWith(path, Https) \/ startsWith(path, Data)

\* The paths, what the vault has for the path ("none": no TFile, "read": a
\* file that is read, "fails": a file whose readBinary rejects) and the
\* adapter's basePath (<<>>: the adapter has none).
ResolvePaths ==
  { <<"h", "t", "t", "p", ":", "/", "/", "a">>,
    <<"h", "t", "t", "p", "s", ":", "/", "/", "a">>,
    <<"d", "a", "t", "a", ":", "a">>,
    <<"h", "t", "t", "p", ":", "/", "a">>,
    <<"H", "T", "T", "P", ":", "/", "/", "a">>,
    <<"d", "a", "t", "a">>,
    <<"a">>,
    <<"m", "\\", "a">>,
    <<"a", "p", "p", ":", "/", "/", "l", "o", "c", "a", "l", "/", "v", "/", "a">>,
    <<>> }
VaultAnswers == {"none", "read", "fails"}
BasePaths == { <<>>, <<"v">>, <<"C", ":", "\\", "v">> }

\* resolveAudioPath(path) is called (lines 879-899): it returns at once for a
\* URL and for a path with no file, and awaits readBinary for a file.
ResolveAudioPath(path, file, base) ==
  /\ resolution.pc # "reading"
  /\ resolution' =
       [pc |-> IF isUrl(path) \/ file = "none" THEN "returned" ELSE "reading",
        path |-> path, file |-> file, base |-> base,
        url |-> IF isUrl(path) THEN path
                ELSE IF file = "none" THEN fallbackUrl(path, base)
                ELSE <<>>]
  /\ UNCHANGED <<engineVars, plugin>>

\* readBinary settles (lines 890-898): the blob URL, or the catch and the
\* fallback of lines 900-913.
ReadBinarySettle ==
  /\ resolution.pc = "reading"
  /\ resolution' =
       [resolution EXCEPT
          !.pc = "returned",
          !.url = IF resolution.file = "read" THEN BlobUrl
                  ELSE fallbackUrl(resolution.path, resolution.base)]
  /\ UNCHANGED <<engineVars, plugin>>

NextResolve ==
  \/ \E path \in ResolvePaths, file \in VaultAnswers, base \in BasePaths :
       ResolveAudioPath(path, file, base)
  \/ ReadBinarySettle

SpecResolve == Init /\ [][NextResolve]_vars

\* C26: resolveAudioPath returns its argument for every path that starts
\* with http://, https:// or data:; for any other path that has no file or
\* whose file cannot be read it returns, when the base path is known, a
\* non-empty URL that is not the argument, and the argument when it is not.
C26_ResolvePassThroughAndFallback ==
  resolution.pc = "returned" =>
    LET path == resolution.path
        url == resolution.url
        scheme == \E prefix \in {Http, Https, Data} :
                    /\ Len(path) >= Len(prefix)
                    /\ \A i \in 1..Len(prefix) : path[i] = prefix[i]
    IN /\ scheme => url = path
       /\ (~scheme /\ resolution.file \in {"none", "fails"}) =>
            IF resolution.base # <<>>
            THEN url # <<>> /\ url # path
            ELSE url = path

\* A path with a backslash whose file could not be read came back as a URL
\* under the base path, with the backslash turned.
C26_Witness ==
  /\ resolution.pc = "returned"
  /\ resolution.file = "fails"
  /\ resolution.path = <<"m", "\\", "a">>
  /\ resolution.url = AppLocal \o <<"v", "/", "m", "/", "a">>

\* ------------------------------------------------------- the rules, edited
\* No path: what findMatchingMusic and getFrontmatterMusic return as null.
NullPath == "<null>"

\* PlaybackContext (main.ts 30-36); an absent currentFile field or
\* currentSection is "".
Context(path, extension, section) ==
  [path |-> path, extension |-> extension, section |-> section]

\* new RegExp(pattern, 'i').test(text), for the patterns and the texts of
\* this model; every pattern is a valid regular expression.
RegExpTest(pattern, text) ==
  <<pattern, text>> \in {<<"notes", "notes/a.md">>, <<"notes", "Notes/b.txt">>,
                         <<"intro", "Intro">>}

\* the switch of findMatchingMusic, main.ts 89-111
Matches(rule, context) ==
  CASE rule.trigger = "file-path" ->
         context.path # "" /\ RegExpTest(rule.pattern, context.path)
    [] rule.trigger = "file-extension" ->
         context.extension # "" /\ context.extension = rule.pattern
    [] rule.trigger = "section-header" ->
         context.section # "" /\ RegExpTest(rule.pattern, context.section)
    [] OTHER -> FALSE

\* ruleEngine.rules
engineRules(P) == IF P.shared THEN P.musicRules ELSE P.rules

\* findMatchingMusic, main.ts 83-119
findMatchingMusic(P, context) ==
  LET q == engineRules(P)
      hits == {i \in 1..Len(q) :
                 /\ P.objects[q[i]].enabled
                 /\ P.objects[q[i]].musicPath # ""
                 /\ Matches(P.objects[q[i]], context)}
  IN IF hits = {} THEN NullPath
     ELSE P.objects[q[CHOOSE i \in hits : \A j \in hits : i <= j]].musicPath

\* updateRules, main.ts 79-81
updateRules(P) ==
  LET enabled(r) == P.objects[r].enabled
  IN [P EXCEPT !.rules = sortByPriority(P.objects, SelectSeq(P.musicRules, enabled)),
               !.shared = FALSE,
               !.stale = FALSE]

\* saveSettings up to its await (main.ts 517-518): saveData is called.
saveSettings(P) == [P EXCEPT !.saving = @ + 1]

\* The rules a RuleEditModal is saved with, and the settings loaded at start.
EditedRules ==
  { Rule("file-extension", "md", LocalPath, 5, TRUE),
    Rule("file-path", "notes", RemotePath, 1, TRUE),
    Rule("file-tag", "notes", LongPath, 5, TRUE) }
LoadedRules ==
  { <<NewRule>>,
    <<Rule("file-path", "notes", RemotePath, 1, TRUE),
      Rule("file-extension", "md", LocalPath, 5, FALSE)>>,
    <<Rule("file-path", "notes", RemotePath, 1, TRUE), NewRule>> }
Contexts ==
  { Context("notes/a.md", "md", ""),
    Context("Notes/b.txt", "txt", ""),
    Context("c.md", "md", ""),
    Context("", "", "Intro") }

\* The toggle of a rule (main.ts 652-657): the rule object itself is changed.
ToggleRule(index) ==
  /\ index \in 1..Len(plugin.musicRules)
  /\ plugin.saving < MaxSaving
  /\ plugin' = saveSettings([plugin EXCEPT
                               !.objects[plugin.musicRules[index]].enabled = ~@,
                               !.stale = TRUE])
  /\ UNCHANGED <<engineVars, resolution>>

\* The modal is saved (main.ts 661-664, 819-822): the copy the modal worked
\* on, a new object, takes the place of the rule in the settings.
EditRule(index, rule) ==
  /\ index \in 1..Len(plugin.musicRules)
  /\ plugin.saving < MaxSaving
  /\ Len(plugin.objects) < MaxObjects
  /\ plugin' = saveSettings([plugin EXCEPT
                               !.objects = Append(@, rule),
                               !.musicRules[index] = Len(plugin.objects) + 1,
                               !.stale = TRUE])
  /\ UNCHANGED <<engineVars, resolution>>

\* Delete (main.ts 670-673): splice(index, 1)
DeleteRule(index) ==
  /\ index \in 1..Len(plugin.musicRules)
  /\ plugin.saving < MaxSaving
  /\ plugin' = saveSettings([plugin EXCEPT
                               !.musicRules = SubSeq(@, 1, index - 1) \o
                                              SubSeq(@, index + 1, Len(@)),
                               !.stale = TRUE])
  /\ UNCHANGED <<engineVars, resolution>>

\* "Add new rule" (main.ts 681-694): push
AddRule ==
  /\ plugin.saving < MaxSaving
  /\ Len(plugin.objects) < MaxObjects
  /\ plugin' = saveSettings([plugin EXCEPT
                               !.objects = Append(@, NewRule),
                               !.musicRules = Append(@, Len(plugin.objects) + 1),
                               !.stale = TRUE])
  /\ UNCHANGED <<engineVars, resolution>>

\* saveData settles and saveSettings goes on (main.ts 519-522): updateRules
\* and audioEngine.setVolume(settings.defaultVolume); when saveData rejects,
\* saveSettings rejects and does neither.
SaveSettle(ok) ==
  /\ plugin.saving > 0
  /\ IF ok
     THEN /\ plugin' = [updateRules(plugin) EXCEPT !.saving = @ - 1]
          /\ globalVolume' = DefaultVolume
          /\ audio' = setVolumeMedia(DefaultVolume)
     ELSE /\ plugin' = [plugin EXCEPT !.saving = @ - 1]
          /\ UNCHANGED <<globalVolume, audio>>
  /\ UNCHANGED <<bgmInstance, sfxInstances, isPlayingBGM, audioManagerLock, timers,
                 calls, mq, now, invoked, resolution>>

InitRules ==
  /\ \E rules \in LoadedRules : plugin = Loaded(rules, TRUE, TRUE)
  /\ resolution = Idle
  /\ audio = <<>>
  /\ bgmInstance = NULL
  /\ sfxInstances = EmptyMap
  /\ globalVolume = DefaultVolume
  /\ isPlayingBGM = FALSE
  /\ audioManagerLock = FALSE
  /\ timers = NoTimers
  /\ calls = <<>>
  /\ mq = <<>>
  /\ now = 0
  /\ invoked = 0

NextRules ==
  \/ \E index \in 1..MaxObjects : ToggleRule(index)
  \/ \E index \in 1..MaxObjects, rule \in EditedRules : EditRule(index, rule)
  \/ \E index \in 1..MaxObjects : DeleteRule(index)
  \/ AddRule
  \/ \E ok \in BOOLEAN : SaveSettle(ok)

SpecRules == InitRules /\ [][NextRules]_vars

\* The rules of the settings that are enabled, have a music path and match.
Candidates(context) ==
  {r \in {plugin.musicRules[i] : i \in 1..Len(plugin.musicRules)} :
     /\ plugin.objects[r].enabled
     /\ plugin.objects[r].musicPath # ""
     /\ Matches(plugin.objects[r], context)}

File(path, extension, music) ==
  [path |-> path, extension |-> extension, music |-> music]

Files ==
  { File("notes/a.md", "md", LongPath),
    File("notes/a.md", "md", ""),
    File("c.txt", "txt", LongPath),
    File("c.txt", "txt", "") }

\* getFrontmatterMusic, main.ts 374-411, behind the test of line 423
getFrontmatterMusic(P, file) ==
  IF P.frontmatterEnabled /\ file.music # "" THEN file.music ELSE NullPath

\* A choice that would take the rule's music whenever a rule matches.
musicPathRuleFirst(P, file) ==
  LET rule == findMatchingMusic(P, Context(file.path, file.extension, ""))
  IN IF rule # NullPath THEN rule ELSE getFrontmatterMusic(P, file)

\* handleFileChange, main.ts 419-442: the path it decides to play
musicPathOf(P, file) ==
  LET frontmatterMusic == getFrontmatterMusic(P, file)
      ruleMusicPath ==
        IF frontmatterMusic = NullPath \/ ~P.frontmatterPriority
        THEN findMatchingMusic(P, Context(file.path, file.extension, ""))
        ELSE NullPath
  IN IF ruleMusicPath # NullPath THEN ruleMusicPath ELSE frontmatterMusic

\* the track of main.ts 445-450: a path and nothing else the engine reads
TrackOf(path) == Track(path, Undefined, 0, "undefined", 0, 0, Undefined, FALSE)

\* handleFileChange, main.ts 413-460.  The await of getFrontmatterMusic
\* settles in microtasks, in which no setting changes; what follows it runs
\* up to the call of playBGM or of stopAll.
HandleFileChange(file) ==
  IF musicPathOf(plugin, file) # NullPath
  THEN PlayBGM(TrackOf(musicPathOf(plugin, file)))
  ELSE StopAll

\* The two toggles of the settings tab, main.ts 599-606 and 621-630.
ToggleFrontmatterEnabled ==
  /\ plugin.saving < MaxSaving
  /\ plugin' = saveSettings([plugin EXCEPT !.frontmatterEnabled = ~@])
  /\ UNCHANGED <<engineVars, resolution>>

ToggleFrontmatterPriority ==
  /\ plugin.saving < MaxSaving
  /\ plugin' = saveSettings([plugin EXCEPT !.frontmatterPriority = ~@])
  /\ UNCHANGED <<engineVars, resolution>>

FileChangeRules ==
  { <<NewRule>>,
    <<Rule("file-extension", "md", LocalPath, 5, TRUE)>> }

InitFileChange ==
  /\ \E rules \in FileChangeRules, enabled \in BOOLEAN, priority \in BOOLEAN :
       plugin = Loaded(rules, enabled, priority)
  /\ resolution = Idle
  /\ audio = <<>>
  /\ bgmInstance = NULL
  /\ sfxInstances = EmptyMap
  /\ globalVolume = DefaultVolume
  /\ isPlayingBGM = FALSE
  /\ audioManagerLock = FALSE
  /\ timers = NoTimers
  /\ calls = <<>>
  /\ mq = <<>>
  /\ now = 0
  /\ invoked = 0

NextFileChange ==
  \/ \E file \in Files : HandleFileChange(file)
  \/ ToggleFrontmatterEnabled
  \/ ToggleFrontmatterPriority
  \/ \E index \in 1..MaxObjects : ToggleRule(index)
  \/ \E ok \in BOOLEAN : SaveSettle(ok)
  \/ \E c \in 1..Len(calls) : BGMResolve(c)
  \/ \E c \in 1..Len(calls) : Resolved(c)
  \/ \E c \in 1..Len(calls) : ReadSettle(c)
  \/ \E c \in 1..Len(calls), ok \in BOOLEAN : PlaySettle(c, ok)

SpecFileChange == InitFileChange /\ [][NextFileChange]_vars

\* The step asks the engine to play path as the background track.
Requested(path) ==
  /\ Len(calls') = Len(calls) + 1
  /\ calls'[Len(calls')].op = "playBGM"
  /\ calls'[Len(calls')].track.path = path

\* The step stops what the slot and the map hold, empties both and asks for
\* no play.
StoppedAll ==
  /\ Len(calls') = Len(calls)
  /\ bgmInstance' = NULL /\ sfxInstances' = EmptyMap
  /\ \A i \in Tracked \cup (IF bgmInstance # NULL THEN {bgmInstance} ELSE {}) :
       Stopped(audio'[i])

\* What handleFileChange does for the file when the file's frontmatter music
\* counts as existing (has) and a rule matches with music path rule.
Decision(has, rule, file) ==
  /\ (plugin.frontmatterPriority /\ has) => Requested(file.music)
  /\ (plugin.frontmatterPriority /\ ~has /\ rule # NullPath) => Requested(rule)
  /\ (~plugin.frontmatterPriority /\ rule # NullPath) => Requested(rule)
  /\ (~plugin.frontmatterPriority /\ rule = NullPath /\ has) => Requested(file.music)
  /\ (~has /\ rule = NullPath) => StoppedAll

\* C30: on a file change, the frontmatter music of the file being what
\* getFrontmatterMusic finds for it (none when frontmatter music is turned
\* off): with frontmatter priority on, the frontmatter music is requested
\* whenever it exists and the music of the matching rule only when it does
\* not; with frontmatter priority off, the music of a matching rule is
\* requested whether there is frontmatter music or not, and the frontmatter
\* music when no rule matches; when there is neither, everything the engine
\* tracks is stopped and no play is requested.
C30_FileChangeDecision ==
  [][\A file \in Files :
       HandleFileChange(file) =>
         Decision(plugin.frontmatterEnabled /\ file.music # "",
                  findMatchingMusic(plugin, Context(file.path, file.extension, "")),
                  file)]_vars

\* The music of the frontmatter was requested for a file that a rule with
\* music matches, frontmatter music and frontmatter priority being on.
C30_Witness ==
  /\ plugin.frontmatterEnabled /\ plugin.frontmatterPriority
  /\ findMatchingMusic(plugin, Context("notes/a.md", "md", "")) = LocalPath
  /\ \E c \in 1..Len(calls) :
       calls[c].op = "playBGM" /\ calls[c].pc # "done" /\ calls[c].track.path = LongPath

\* ------------------------------------- the end of the media and the range
\* One background track with a range on the long resource, where the end of
\* the range falls on the end of the media or within the last position step
\* before it, or lies at or before the start of the range.  At the end of the
\* resource the platform pauses the element and queues timeupdate and ended
\* for it; the order in which the two reach the handlers is either.
BoundarySteps == {5, 10}
BoundaryTracks ==
  {Track(LongPath, 0, 0, loop, st, et, Undefined, apply) :
     loop \in {"undefined", "false"}, st \in {0, 10},
     et \in {0, 5, 22, LongDuration}, apply \in BOOLEAN}
  \cup {Track(LongPath, 0, 0, "undefined", 0, 22, ls, TRUE) : ls \in {12, 23}}

\* The media of the background instance i plays through the end of its
\* resource: the position is the duration, the element is paused, and the two
\* events are queued.
ReachEnd(i, order) ==
  /\ mq = <<>>
  /\ i \in 1..Len(audio)
  /\ audio[i].type = "bgm"
  /\ audio[i].media = "playing" /\ audio[i].boundary.queued = <<>>
  /\ audio[i].pos < MediaDuration(audio[i])
  /\ \E d \in BoundarySteps : audio[i].pos + d >= MediaDuration(audio[i])
  /\ audio' = [audio EXCEPT ![i].pos = MediaDuration(audio[i]),
                            ![i].media = "paused",
                            ![i].boundary = [queued |-> order, seeks |-> 0,
                                             handled |-> 0]]
  /\ UNCHANGED <<bgmInstance, sfxInstances, globalVolume, isPlayingBGM,
                 audioManagerLock, timers, calls, mq, now, invoked>>
  /\ UNCHANGED <<plugin, resolution>>

\* The first of the queued events of the element of i is dispatched: the
\* listener of lines 871-872 for it runs if it is still attached.
DispatchEvent(i) ==
  /\ mq = <<>>
  /\ i \in 1..Len(audio)
  /\ audio[i].boundary.queued # <<>>
  /\ LET a == audio[i]
         ev == Head(a.boundary.queued)
         seeks == IF ev = "ended" THEN loopsAtEnded(a) ELSE loopsAtEndTime(a)
         b == IF ~a.handlers THEN a
              ELSE IF ev = "ended" THEN endedHandler(a) ELSE timeUpdateHandler(a)
     IN audio' = [audio EXCEPT ![i] =
                    [b EXCEPT !.boundary =
                       [queued |-> Tail(a.boundary.queued),
                        seeks |-> IF a.handlers /\ seeks THEN @.seeks + 1 ELSE @.seeks,
                        handled |-> IF a.handlers THEN @.handled + 1 ELSE @.handled]]]
  /\ UNCHANGED <<bgmInstance, sfxInstances, globalVolume, isPlayingBGM,
                 audioManagerLock, timers, calls, mq, now, invoked>>
  /\ UNCHANGED <<plugin, resolution>>

\* A position tick before the end of the resource, after the queued events
\* of the element.
TimeUpdateBefore(i, d) ==
  /\ i \in 1..Len(audio)
  /\ audio[i].boundary.queued = <<>>
  /\ audio[i].pos + d < MediaDuration(audio[i])
  /\ TimeUpdateBy(i, d)

NextBoundary ==
  \/ \E track \in BoundaryTracks : PlayBGM(track)
  \/ \E c \in 1..Len(calls) : BGMResolve(c)
  \/ \E c \in 1..Len(calls) : Resolved(c)
  \/ \E c \in 1..Len(calls) : PlaySettle(c, TRUE)
  \/ \E i \in 1..Len(audio), d \in BoundarySteps : TimeUpdateBefore(i, d)
  \/ \E i \in 1..Len(audio) :
       \E order \in {<<"timeupdate", "ended">>, <<"ended", "timeupdate">>} :
         ReachEnd(i, order)
  \/ \E i \in 1..Len(audio) : DispatchEvent(i)
  \/ StopBGMNow
  \/ \E ok \in BOOLEAN : Resume(ok)

SpecBoundary == Init /\ [][NextBoundary]_vars

\* The range of the track is well formed for a loop at the end of the media:
\* the track loops, its endTime is reached no later than the end of the
\* resource, and the loop origin lies before endTime.
LoopsAtBoundary(a) ==
  /\ a.type = "bgm" /\ a.track.loop # "false"
  /\ a.track.endTime # 0 /\ a.track.endTime <= MediaDuration(a)
  /\ loopOrigin(a.track) < a.track.endTime

\* C31: at one end of the media of a looping background track whose endTime
\* has been reached, the handlers of timeupdate and of ended seek to the loop
\* origin at most once between them, in either order of the two events, and
\* exactly once when both have run: the ended handler does not seek after
\* the timeupdate handler has.
C31_LoopSeekOnce ==
  \A i \in 1..Len(audio) :
    LoopsAtBoundary(audio[i]) =>
      /\ audio[i].boundary.seeks <= 1
      /\ audio[i].boundary.handled = 2 => audio[i].boundary.seeks = 1

\* Both events of one end of the media were handled, timeupdate first: the
\* track was seeked to its loop origin once, by the timeupdate handler, and
\* the ended handler left it there.
C31_Witness ==
  \E i \in 1..Len(audio) :
    /\ LoopsAtBoundary(audio[i])
    /\ audio[i].boundary.handled = 2 /\ audio[i].boundary.queued = <<>>
    /\ audio[i].boundary.seeks = 1
    /\ audio[i].isLooping /\ audio[i].media = "paused"
    /\ audio[i].pos = loopOrigin(audio[i].track)

\* ------------------------------------------- the completion of a track
\* C32 (as claimed): when a background track with loop: false completes, by
\* the natural end of its media or by a position tick at or past its
\* endTime, its instance is left as stopAudio leaves one: the two range
\* handlers detached, the media paused, the position 0.
C32_CompletionDestroys ==
  [][\A i \in 1..Len(audio) :
       (audio[i].type = "bgm" /\ audio[i].track.loop = "false") =>
         /\ NaturalEnd(i) => Stopped(audio'[i])
         /\ ( /\ PositionTick(i) /\ audio[i].track.endTime > 0
              /\ audio'[i].media = "paused" )
            => Stopped(audio'[i])]_vars

\* ------------------------------------------------------ a malformed range
\* The track has an endTime that is not after its startTime.
MalformedRange(track) == track.endTime # 0 /\ track.endTime <= track.startTime

\* C33 (as claimed): for a background track whose endTime is at or before
\* its startTime the range counts as absent: a position tick before the end
\* of the media lets the track play on at the position the element reports,
\* with no seek and no pause on account of endTime, and the timeupdate event
\* of the end of the media changes neither the position nor the media.
C33_MalformedRangeIgnored ==
  [][\A i \in 1..Len(audio) :
       (audio[i].type = "bgm" /\ audio[i].handlers
          /\ MalformedRange(audio[i].track)) =>
         /\ \A d \in BoundarySteps :
              TimeUpdateBefore(i, d) =>
                /\ audio'[i].media = "playing"
                /\ audio'[i].pos = audio[i].pos + d
         /\ ( /\ DispatchEvent(i)
              /\ Head(audio[i].boundary.queued) = "timeupdate" )
            => /\ audio'[i].media = audio[i].media
               /\ audio'[i].pos = audio[i].pos]_vars

\* ------------------------------------------------------ what can be stopped
\* The instance i is that of a play call that has not ended yet.
OfCallInFlight(i) == \E c \in InFlightCalls : calls[c].inst = i

\* C34 (as claimed): every media element of the engine that is playing is
\* the slot's, or that of an entry of the effect map, or that of a play call
\* that has not ended yet.
C34_PlayingIsReferenced ==
  \A i \in 1..Len(audio) :
    audio[i].media = "playing" =>
      i = bgmInstance \/ i \in Tracked \/ OfCallInFlight(i)

\* ------------------------------------------------------------ after stopAll
\* Play requests, then stopAll as the last method invoked: stopAll (through
\* stop() in onunload, main.ts 176, or in handleFileChange for a file without
\* music, main.ts 457) runs while the play calls before it are wherever they
\* are, and nothing is requested after it.
PlayBefore == invoked < MaxCalls - 1

StopAllLast == invoked = MaxCalls - 1 /\ StopAll

NextStopAll ==
  \/ \E track \in BGMTracks : PlayBefore /\ PlayBGM(track)
  \/ \E track \in SFXTracks : PlayBefore /\ PlaySFX(track)
  \/ \E c \in 1..Len(calls) : BGMResolve(c)
  \/ \E c \in 1..Len(calls) : Resolved(c)
  \/ \E c \in 1..Len(calls) : ReadSettle(c)
  \/ \E c \in 1..Len(calls), ok \in BOOLEAN : PlaySettle(c, ok)
  \/ \E t \in 1..MaxCalls, d \in TickDeltas : FadeTick(t, d)
  \/ \E i \in 1..Len(audio) : TimeUpdate(i)
  \/ \E i \in 1..Len(audio) : Ended(i)
  \/ ClockTick
  \/ StopAllLast

SpecStopAll == Init /\ [][NextStopAll]_vars

\* stopAll has run and no method was invoked after it.
StopAllHasRun == invoked = MaxCalls

\* C35 (as claimed): once stopAll has run and no play is requested after it,
\* no media element of the engine is playing, those of the play calls that
\* were waiting for their path or their native start when it ran included.
C35_SilentAfterStopAll ==
  StopAllHasRun => \A i \in 1..Len(audio) : audio[i].media # "playing"

\* ------------------------------------------------------ the promises settle
\* C36 (as claimed): every promise that playBGM, playSFX or stopBGM has
\* returned settles in the end, also when the instance its fade runs on is
\* stopped or replaced before the fade has finished.
C36_EveryPromiseSettles ==
  \A c \in 1..MaxCalls :
    (c <= Len(calls) /\ calls[c].op \in {"playBGM", "playSFX", "stopBGM"})
      ~> (c <= Len(calls) /\ calls[c].result # "pending")

\* --------------------------------------------- setVolume and the fade-in
\* Background tracks with and without a fade-in, and setVolume with volumes
\* the media element accepts, invoked at any point of the play calls.
AcceptedVolumes == {v \in SetVolumes \cup {1000} : VolumeOk(v)}

NextVolume ==
  \/ \E track \in FadeTracks : PlayBGM(track)
  \/ \E c \in 1..Len(calls) : BGMResolve(c)
  \/ \E c \in 1..Len(calls) : Resolved(c)
  \/ \E c \in 1..Len(calls) : PlaySettle(c, TRUE)
  \/ \E t \in 1..MaxCalls, d \in FadeDeltas : FadeTick(t, d)
  \/ \E v \in AcceptedVolumes : SetVolume(v)

SpecVolume == Init /\ [][NextVolume]_vars

\* C37 (as claimed): whenever the slot holds an instance on which no ramp is
\* active, the current volume of the instance and the volume of its media
\* element are its target volume, after any playBGM and setVolume calls,
\* those setVolume calls included that were made while a fade-in was running.
C37_VolumeIsTarget ==
  (bgmInstance # NULL /\ ~FadeActive(bgmInstance)) =>
    /\ audio[bgmInstance].currentVolume = audio[bgmInstance].targetVolume
    /\ audio[bgmInstance].volume = audio[bgmInstance].targetVolume

\* ----------------------------------------------- stopBGM after its fade-out
\* C38 (as claimed): when a stopBGM call with a fade goes on after its
\* fade-out, it stops the instance that was in the slot when it was invoked
\* and no other: an instance installed since is neither changed nor taken
\* out of the slot, and on a slot that is empty by then the call ends
\* without an error.
C38_StopsOwnInstanceOnly ==
  [][\A c \in 1..Len(calls) :
       (calls[c].op = "stopBGM" /\ Ends(c)) =>
         /\ \A i \in 1..Len(audio) : i # calls[c].inst => audio'[i] = audio[i]
         /\ bgmInstance # calls[c].inst => bgmInstance' = bgmInstance
         /\ calls'[c].result = "fulfilled"]_vars

\* ------------------------------------------------------------ the debounce
\* file-open and active-leaf-change (main.ts 341-358) reach
\* debouncedHandleFileChange (main.ts 360-372); the workspace delivers them
\* while the plugin is loaded (registerEvent detaches the listeners at
\* unload).  Time moves in steps of ClockStep ms; a timer of setTimeout fires
\* no earlier than its delay and may fire later.
ClockStep == 100

\* file === null
NullFile == File("<null>", "", "")

DebounceFiles == {File("notes/a.md", "md", LongPath), File("c.txt", "txt", "")}

\* What active-leaf-change hands over: markdown says that leaf is not null and
\* leaf.view is a MarkdownView, file is leaf.view.file.
Leaves ==
  {[markdown |-> FALSE, file |-> NullFile]}
    \cup {[markdown |-> TRUE, file |-> f] : f \in DebounceFiles \cup {NullFile}}

\* window.clearTimeout(id)
clearTimeout(T, id) == [k \in DOMAIN T \ {id} |-> T[k]]

\* A debounce that would set its timer without clearing the one before.
debounceWithoutClear(P, file) ==
  LET id == P.timeoutIds + 1
  IN [P EXCEPT !.timeouts = [k \in DOMAIN P.timeouts \cup {id} |->
                               IF k = id THEN [file |-> file, elapsed |-> 0]
                               ELSE P.timeouts[k]],
               !.debounceTimer = id,
               !.timeoutIds = id,
               !.sinceDebounced = 0,
               !.lastEvent = file]

\* debouncedHandleFileChange, main.ts 360-372: the pending timer is cleared
\* and a new one is set, whose callback holds the file.
debouncedHandleFileChange(P, file) ==
  LET id == P.timeoutIds + 1
      T == IF P.debounceTimer # NULL THEN clearTimeout(P.timeouts, P.debounceTimer)
           ELSE P.timeouts
  IN [P EXCEPT !.timeouts = [k \in DOMAIN T \cup {id} |->
                               IF k = id THEN [file |-> file, elapsed |-> 0]
                               ELSE T[k]],
               !.debounceTimer = id,
               !.timeoutIds = id,
               !.sinceDebounced = 0,
               !.lastEvent = file]

\* file-open, main.ts 344-346
FileOpen(file) ==
  /\ plugin.loaded
  /\ plugin.timeoutIds < MaxTimers
  /\ plugin' = [debouncedHandleFileChange(plugin, file) EXCEPT !.sinceEvent = 0]
  /\ UNCHANGED <<engineVars, resolution>>

\* active-leaf-change, main.ts 351-356
ActiveLeafChange(leaf) ==
  /\ plugin.loaded
  /\ leaf.markdown => plugin.timeoutIds < MaxTimers
  /\ plugin' = [(IF leaf.markdown THEN debouncedHandleFileChange(plugin, leaf.file)
                 ELSE plugin) EXCEPT !.sinceEvent = 0]
  /\ UNCHANGED <<engineVars, resolution>>

\* ClockStep ms go by.
Elapse ==
  /\ \/ plugin.sinceEvent < DebounceMs
     \/ plugin.sinceDebounced < DebounceMs
     \/ \E id \in DOMAIN plugin.timeouts : plugin.timeouts[id].elapsed < DebounceMs
  /\ plugin' = [plugin EXCEPT
                  !.sinceEvent = Min(@ + ClockStep, DebounceMs),
                  !.sinceDebounced = Min(@ + ClockStep, DebounceMs),
                  !.timeouts = [id \in DOMAIN @ |->
                                  [@[id] EXCEPT !.elapsed = Min(@ + ClockStep, DebounceMs)]]]
  /\ UNCHANGED <<engineVars, resolution>>

\* handleFileChange, main.ts 413-460, as HandleFileChange above: what it
\* does to the engine
handleFileChange(file) ==
  IF musicPathOf(plugin, file) # NullPath
  THEN playBGM(TrackOf(musicPathOf(plugin, file)))
  ELSE stopAll

\* The callback of the timer id runs (main.ts 367-371).
DebounceFire(id) ==
  /\ id \in DOMAIN plugin.timeouts
  /\ plugin.timeouts[id].elapsed >= DebounceMs
  /\ plugin' = [plugin EXCEPT !.timeouts = clearTimeout(@, id)]
  /\ IF plugin.timeouts[id].file # NullFile /\ plugin.autoplay
     THEN handleFileChange(plugin.timeouts[id].file)
     ELSE UNCHANGED engineVars
  /\ UNCHANGED resolution

\* The toggle of the settings tab, main.ts 571-576.
ToggleAutoplay ==
  /\ plugin.saving < MaxSaving
  /\ plugin' = saveSettings([plugin EXCEPT !.autoplay = ~@])
  /\ UNCHANGED <<engineVars, resolution>>

\* onunload, main.ts 168-178: the pending timer is cleared and the engine is
\* stopped (stop() is stopAll(), music-block-processor.ts 975-977).
Unload ==
  /\ plugin.loaded
  /\ plugin' = [plugin EXCEPT
                  !.loaded = FALSE,
                  !.timeouts = IF plugin.debounceTimer # NULL
                               THEN clearTimeout(@, plugin.debounceTimer) ELSE @]
  /\ stopAll
  /\ UNCHANGED resolution

NextDebounce ==
  \/ \E file \in DebounceFiles \cup {NullFile} : FileOpen(file)
  \/ \E leaf \in Leaves : ActiveLeafChange(leaf)
  \/ Elapse
  \/ \E id \in 1..MaxTimers : DebounceFire(id)
  \/ ToggleAutoplay
  \/ \E ok \in BOOLEAN : SaveSettle(ok)
  \/ Unload
  \/ \E c \in 1..Len(calls) : BGMResolve(c)
  \/ \E c \in 1..Len(calls) : Resolved(c)
  \/ \E c \in 1..Len(calls), ok \in BOOLEAN : PlaySettle(c, ok)

SpecDebounce == Init /\ [][NextDebounce]_vars

\* handleFileChange runs in the step: the callback of a timer runs and
\* something of the engine is invoked.
RunsHandleFileChange(id) == DebounceFire(id) /\ invoked' = invoked + 1

\* What holds of the debounce whichever events count: one timer at most is
\* pending, none after onunload, and a callback that runs handleFileChange
\* runs it with autoplay on and for the file of the last debounced event,
\* and a callback that does not leaves the engine alone.
DebounceFrame ==
  /\ Cardinality(DOMAIN plugin.timeouts') <= 1
  /\ ~plugin.loaded' => DOMAIN plugin.timeouts' = {}
  /\ \A id \in 1..MaxTimers :
       /\ RunsHandleFileChange(id) =>
            /\ plugin.autoplay
            /\ plugin.lastEvent # NullFile
            /\ LET path == musicPathOf(plugin, plugin.lastEvent)
               IN IF path # NullPath THEN Requested(path) ELSE StoppedAll
       /\ (DebounceFire(id) /\ ~(plugin.autoplay /\ plugin.lastEvent # NullFile))
            => UNCHANGED engineVars

\* C39 (as claimed): at most one debounce timer is pending, none after
\* onunload, and handleFileChange runs only when 300 ms have gone by since
\* the last file-open or active-leaf-change event, for the file of that
\* event and with autoplay on at that moment.
C39_DebounceAnyEvent ==
  [][/\ DebounceFrame
     /\ \A id \in 1..MaxTimers :
          RunsHandleFileChange(id) => plugin.sinceEvent >= DebounceMs]_vars

\* C39 (amended): the events that count are those handed to
\* debouncedHandleFileChange: every file-open, and the active-leaf-change
\* whose leaf shows a Markdown view.  At most one debounce timer is pending,
\* none after onunload, and handleFileChange runs only when 300 ms have gone
\* by since the last of these events, for the file of that event and with
\* autoplay on at that moment; an active-leaf-change to another view or to
\* no leaf neither cancels nor delays the pending timer.
C39_DebounceOfHandedEvents ==
  [][/\ DebounceFrame
     /\ \A id \in 1..MaxTimers :
          RunsHandleFileChange(id) => plugin.sinceDebounced >= DebounceMs
     /\ \A leaf \in Leaves :
          (ActiveLeafChange(leaf) /\ ~leaf.markdown) =>
            plugin'.timeouts = plugin.timeouts]_vars

\* Two events were debounced, the second one for the file with music, and
\* its timer has run handleFileChange: the music of that file was requested
\* and no timer is pending.
C39_Witness ==
  /\ plugin.timeoutIds >= 2 /\ DOMAIN plugin.timeouts = {}
  /\ plugin.loaded /\ plugin.sinceDebounced = DebounceMs
  /\ plugin.lastEvent = File("notes/a.md", "md", LongPath)
  /\ \E c \in 1..Len(calls) : calls[c].op = "playBGM" /\ calls[c].track.path = LongPath

====
